---- MODULE Spec2Model ----
(***************************************************************************)
(* A model of sixtyfive's NES disassembler: the statement store            *)
(* (src/src/disassemble/code.rs), the instruction renderer                 *)
(* (instruction.rs), the recursive traversal (disassembler.rs) and the     *)
(* iNES driver (nes_disassembler.rs, mod.rs).                              *)
(*                                                                         *)
(* The store holds one Statement per input byte.  The model keeps it       *)
(* sparse: `stmts.over` holds the cells some operation has written, every  *)
(* other cell is what Code::new (and, for CHR-ROM, parse_chr_rom) made of  *)
(* the input byte at that offset.  All sizes and addresses are the         *)
(* program's own (a 16-byte header, 16 KiB PRG-ROM pages, 16-bit           *)
(* addresses).                                                             *)
(***************************************************************************)
EXTENDS Integers, Sequences, FiniteSets, TLC

VARIABLES
    data,              \* the input file (Vec<u8>), described by its varying parts
    stmts,             \* Code::stmts
    addr_to_variable,  \* Code::addr_to_variable
    prg_rom_count,     \* NesDisassembler::prg_rom_count
    chr_rom_count,     \* NesDisassembler::chr_rom_count
    pc,                \* position of NesDisassembler::disassemble
    prg_rom_idx,       \* loop index of disassemble_entry_points
    vectors,           \* nmi, reset, irq of the current bank
    stack,             \* activation records of Disassembler::disassemble
    ret,               \* value a finished activation hands to its caller
    status,            \* "running", or how the run ended: "ok", "err", "panic"
    error,             \* the DisassembleError the run ended with
    out,               \* lines written to the output sink
    unhandled,         \* opcodes reported by println!("unhandled: ...")
    decoded,           \* history: <<offset, size>> of every successful decode, in order
    failed,            \* history: offsets of the cells whose read made a decode fail
    linker             \* an application of the linker file parsers: input and result

vars == <<data, stmts, addr_to_variable, prg_rom_count, chr_rom_count, pc,
          prg_rom_idx, vectors, stack, ret, status, error, out, unhandled,
          decoded, failed, linker>>

(***************************************************************************)
(* Bounds of the model.                                                    *)
(***************************************************************************)
\* length of the code window when each of its bytes is drawn from an alphabet
RawLen == 4
\* length of the code window when it is a sequence of whole instructions
ProgLen == 7
\* most CHR-ROM pages of an input
MaxChr == 1

(***************************************************************************)
(* Program constants.                                                      *)
(***************************************************************************)
NES_HEADER_LENGTH == 16
NES_PRG_ROM_PAGE_LENGTH == 16384
NES_CHR_ROM_PAGE_LENGTH == 8192
NES_PRG_ROM_START_ADDRESS == 32768

U8 == 256
U16 == 65536

\* `v as i8`
as_i8(v) == IF v >= 128 THEN v - 256 ELSE v

Min(a, b) == IF a < b THEN a ELSE b

(***************************************************************************)
(* Formatting: {:02x}, {:04x}, {:02X}, {:04X}, {:<25}.                      *)
(***************************************************************************)
LowerHexDigits == <<"0", "1", "2", "3", "4", "5", "6", "7",
                    "8", "9", "a", "b", "c", "d", "e", "f">>
UpperHexDigits == <<"0", "1", "2", "3", "4", "5", "6", "7",
                    "8", "9", "A", "B", "C", "D", "E", "F">>

fmt_02x(v) == LowerHexDigits[(v \div 16) + 1] \o LowerHexDigits[(v % 16) + 1]
fmt_04x(v) == fmt_02x(v \div 256) \o fmt_02x(v % 256)
fmt_02X(v) == UpperHexDigits[(v \div 16) + 1] \o UpperHexDigits[(v % 16) + 1]
fmt_04X(v) == fmt_02X(v \div 256) \o fmt_02X(v % 256)

Spaces(n) == IF n <= 0 THEN "" ELSE SubSeq("                         ", 1, n)

\* {:<25}: left-aligned, padded with spaces to 25 characters
fmt_pad25(s) == s \o Spaces(25 - Len(s))

(***************************************************************************)
(* Option, Result and DisassembleError.                                    *)
(***************************************************************************)
None == <<>>
Some(x) == <<x>>

NoError == [kind |-> "none", msg |-> "", at |-> <<>>]
ParseError(msg) == [kind |-> "ParseError", msg |-> msg, at |-> <<>>]
\* WrappedError(format!("{} at offset ${:04x} (addr ${:04x})", err, offset, addr)):
\* `at` lists the (offset, addr) pairs the message names, innermost first
WrappedError(err, offset, addr) ==
    [kind |-> "WrappedError", msg |-> err.msg,
     at |-> Append(err.at, [offset |-> offset, addr |-> addr])]

Ok(v) == [ok |-> TRUE, v |-> v, err |-> NoError]
Err(e) == [ok |-> FALSE, v |-> 0, err |-> e]

(***************************************************************************)
(* AsmCode and Statement (code.rs).                                        *)
(***************************************************************************)
NoInstr == [name |-> "", v |-> 0, label |-> ""]
Instr(name, v, label) == [name |-> name, v |-> v, label |-> label]

AsmCode(t, v, str, instr, seq) ==
    [t |-> t, v |-> v, str |-> str, instr |-> instr, seq |-> seq]
DataHexU8(v) == AsmCode("DataHexU8", v, "", NoInstr, <<>>)
DataHexU16(v) == AsmCode("DataHexU16", v, "", NoInstr, <<>>)
DataU8(v) == AsmCode("DataU8", v, "", NoInstr, <<>>)
DataBinaryU8(v) == AsmCode("DataBinaryU8", v, "", NoInstr, <<>>)
DataString(s) == AsmCode("DataString", 0, s, NoInstr, <<>>)
DataSeq(seq) == AsmCode("DataSeq", 0, "", NoInstr, seq)
Instruction(instr) == AsmCode("Instruction", 0, "", instr, <<>>)
Used == AsmCode("Used", 0, "", NoInstr, <<>>)

Statement(asm_code, comment, segment, label) ==
    [asm_code |-> asm_code, comment |-> comment, segment |-> segment, label |-> label]

\* AsmCode::is_eq_u8
AsmCode_is_eq_u8(code, arg) == code.t = "DataHexU8" /\ code.v = arg

\* AsmCode::to_u8
\* a to_u8 that reads a tombstone or an instruction as the byte 0
to_u8_of_any_cell(code) ==
    IF code.t \in {"DataHexU8", "DataU8", "DataBinaryU8"}
    THEN Ok(code.v)
    ELSE IF code.t \in {"Used", "Instruction"}
    THEN Ok(0)
    ELSE Err(ParseError("unexpected asm code \"" \o code.t \o "\""))

to_u8(code) ==
    IF code.t \in {"DataHexU8", "DataU8", "DataBinaryU8"}
    THEN Ok(code.v)
    ELSE Err(ParseError("unexpected asm code \"" \o code.t \o "\""))

(***************************************************************************)
(* The input file.  `data` names the bytes that vary; Data(o) is the byte  *)
(* at file offset o: the 16-byte header (magic, PRG-ROM count, CHR-ROM     *)
(* count, ten zero flag bytes), then the PRG-ROM banks, each ending with   *)
(* its NMI, RESET and IRQ vectors (little endian), then the CHR-ROM pages. *)
(* The bytes right before bank 0's vectors are data.code; every            *)
(* other byte is $FF.                                                      *)
(***************************************************************************)
VectorsOffset(bank) ==
    NES_HEADER_LENGTH + NES_PRG_ROM_PAGE_LENGTH * (bank + 1) - 6

CodeLen == Len(data.code)

CodeStart == VectorsOffset(0) - CodeLen

\* the CPU address of byte i (0-based) of a code window of n bytes, the bank being
\* seen at $C000
CodeAddr(n, i) == U16 - 6 - n + i

Data(o) ==
    IF o < 4 THEN data.magic[o + 1]
    ELSE IF o = 4 THEN data.prg
    ELSE IF o = 5 THEN data.chr
    ELSE IF o < NES_HEADER_LENGTH THEN 0
    ELSE IF o >= CodeStart /\ o < CodeStart + CodeLen THEN data.code[o - CodeStart + 1]
    ELSE IF \E b \in 0..(data.prg - 1) : o - VectorsOffset(b) \in 0..5
    THEN LET b == CHOOSE b \in 0..(data.prg - 1) : o - VectorsOffset(b) \in 0..5
             k == o - VectorsOffset(b)
             v == data.vecs[b + 1][(k \div 2) + 1]
         IN  IF k % 2 = 0 THEN v % 256 ELSE v \div 256
    ELSE 255

\* data.len() of the input Vec<u8>
DataLen == data.len

InRange(o) == o >= 0 /\ o < DataLen

(***************************************************************************)
(* Code (code.rs).  A store value s is [over, chr]: s.over maps the        *)
(* offsets written so far to their Statement, and s.chr = [start, pages]   *)
(* says which CHR-ROM pages parse_chr_rom has grouped.                     *)
(***************************************************************************)
UsedStmt == Statement(Used, None, None, None)

fmt_dec(n) ==
    IF n < 10 THEN UpperHexDigits[n + 1]
    ELSE IF n < 100 THEN UpperHexDigits[(n \div 10) + 1] \o UpperHexDigits[(n % 10) + 1]
    ELSE UpperHexDigits[(n \div 100) + 1] \o UpperHexDigits[((n \div 10) % 10) + 1]
         \o UpperHexDigits[(n % 10) + 1]

\* the cell Code::new makes of input byte o
NewStmt(o) == Statement(DataHexU8(Data(o)), None, None, None)

\* the cell parse_chr_rom leaves at offset o of a grouped CHR-ROM page
ChrStmt(start, o) ==
    IF (o - start) % 16 = 0
    THEN Statement(DataSeq([i \in 1..16 |-> DataHexU8(Data(o + i - 1))]),
                   None,
                   IF (o - start) % NES_CHR_ROM_PAGE_LENGTH = 0
                   THEN Some("CHRROM" \o fmt_dec((o - start) \div NES_CHR_ROM_PAGE_LENGTH))
                   ELSE None,
                   None)
    ELSE UsedStmt

InGroupedChr(s, o) ==
    o >= s.chr.start /\ o < s.chr.start + s.chr.pages * NES_CHR_ROM_PAGE_LENGTH

\* self.stmts[offset]
Stmt(s, offset) ==
    IF offset \in DOMAIN s.over THEN s.over[offset]
    ELSE IF InGroupedChr(s, offset) THEN ChrStmt(s.chr.start, offset)
    ELSE NewStmt(offset)

\* self.stmts[offset] = stmt
Put(s, offset, stmt) ==
    [s EXCEPT !.over = (offset :> stmt) @@ s.over]

\* Code::new
Code_new == [over |-> <<>>, chr |-> [start |-> 0, pages |-> 0]]

\* Code::is_eq_u8
is_eq_u8(s, offset, d) == AsmCode_is_eq_u8(Stmt(s, offset).asm_code, d)

\* a take that appends the tombstone to the store instead of leaving it at offset
take_appending(s, offset) ==
    [s |-> [s EXCEPT !.over = (DataLen :> UsedStmt) @@ s.over], stmt |-> Stmt(s, offset)]

\* Code::take: the cell becomes a tombstone without metadata; the old cell is returned
take(s, offset) == [s |-> Put(s, offset, UsedStmt), stmt |-> Stmt(s, offset)]

\* a get_u8 that reads the byte of the file, whatever the cell has become
get_u8_of_data(s, offset) == Ok(Data(offset))

\* Code::get_u8
get_u8(s, offset) == to_u8(Stmt(s, offset).asm_code)

\* Code::get_i8
get_i8(s, offset) ==
    LET r == get_u8(s, offset)
    IN  IF r.ok THEN Ok(as_i8(r.v)) ELSE r

\* Code::set
set(s, offset, stmt) == Put(s, offset, stmt)

\* Code::replace: every cell of start..end-1 becomes Used, then the first gets new_code;
\* comment, segment and label stay
RECURSIVE UseRange(_, _, _)
UseRange(s, start, end) ==
    IF start >= end THEN s
    ELSE UseRange(Put(s, start, [Stmt(s, start) EXCEPT !.asm_code = Used]), start + 1, end)

replace(s, start, end, new_code) ==
    LET s1 == UseRange(s, start, end)
    IN  Put(s1, start, [Stmt(s1, start) EXCEPT !.asm_code = new_code])

\* Code::replace_with_u8
replace_with_u8(s, offset) ==
    LET r == to_u8(Stmt(s, offset).asm_code)
    IN  IF r.ok
        THEN [s |-> Put(s, offset, [Stmt(s, offset) EXCEPT !.asm_code = DataU8(r.v)]),
              res |-> r]
        ELSE [s |-> s, res |-> r]

\* Code::replace_with_binary_u8
replace_with_binary_u8(s, offset) ==
    LET r == to_u8(Stmt(s, offset).asm_code)
    IN  IF r.ok
        THEN [s |-> Put(s, offset, [Stmt(s, offset) EXCEPT !.asm_code = DataBinaryU8(r.v)]),
              res |-> r]
        ELSE [s |-> s, res |-> r]

\* Code::set_comment, Code::set_segment, Code::set_label
set_comment(s, offset, comment) ==
    Put(s, offset, [Stmt(s, offset) EXCEPT !.comment = Some(comment)])
set_segment(s, offset, segment) ==
    Put(s, offset, [Stmt(s, offset) EXCEPT !.segment = Some(segment)])
set_label(s, offset, label) ==
    Put(s, offset, [Stmt(s, offset) EXCEPT !.label = Some(label)])

\* Code::is_instruction
is_instruction(s, offset) == Stmt(s, offset).asm_code.t = "Instruction"

\* disassembler.rs to_u16
to_u16(arg0, arg1) ==
    LET l == to_u8(arg0)
        h == to_u8(arg1)
    IN  IF ~l.ok THEN l
        ELSE IF ~h.ok THEN h
        ELSE Ok(h.v * 256 + l.v)

(***************************************************************************)
(* Code::replace_with_instr.  `mk` stands for the closure instr_fn:        *)
(* mk.closure = "u8" builds Instruction::<name>(args[0].to_u8()?), "u16"   *)
(* builds Instruction::<name>(to_u16(&args[0], &args[1])?), "fixed"        *)
(* returns the instruction mk.instr whatever the arguments are.            *)
(* The takes run first, one cell at a time, and are not undone when the    *)
(* closure fails.  The result also names the cell whose content made the   *)
(* closure fail (bad), for the history variable `failed`.                  *)
(***************************************************************************)
RECURSIVE TakeArgs(_, _, _, _)
TakeArgs(s, offset, i, args_len) ==
    IF i >= args_len THEN [s |-> s, args |-> <<>>]
    ELSE LET t == take(s, offset + i + 1)
             rest == TakeArgs(t.s, offset, i + 1, args_len)
         IN  [s |-> rest.s, args |-> <<t.stmt.asm_code>> \o rest.args]

instr_fn(mk, args) ==
    IF mk.closure = "u8"
    THEN LET r == to_u8(args[1])
         IN  IF r.ok THEN Ok(Instr(mk.name, r.v, "")) ELSE r
    ELSE IF mk.closure = "u16"
    THEN LET r == to_u16(args[1], args[2])
         IN  IF r.ok THEN Ok(Instr(mk.name, r.v, "")) ELSE r
    ELSE Ok(mk.instr)

\* a replace_with_instr that reports the instruction's size and installs nothing
replace_with_instr_not_installed(s, offset, args_len, mk) ==
    [s |-> s, res |-> Ok(args_len + 1), bad |-> -1]

replace_with_instr(s, offset, args_len, mk) ==
    LET t == TakeArgs(s, offset, 0, args_len)
        instr == instr_fn(mk, t.args)
    IN  IF instr.ok
        THEN [s |-> replace(t.s, offset, offset + args_len + 1, Instruction(instr.v)),
              res |-> Ok(args_len + 1), bad |-> -1]
        ELSE [s |-> t.s, res |-> instr,
              bad |-> IF to_u8(t.args[1]).ok THEN offset + 2 ELSE offset + 1]

(***************************************************************************)
(* The opcode match of Disassembler::disassemble (disassembler.rs 34-660), *)
(* one entry per opcode byte 0x00..0xff.  kind is the shape of the arm:    *)
(*   "plain"  replace_with_instr(offset, args_len, closure)                *)
(*   "stop"   replace_with_instr(offset, 0, ..)?; Result::Ok(0)            *)
(*   "jsr", "jmp", "branch"  the arms that follow a target                 *)
(*   "other"  the `_` arm                                                  *)
(***************************************************************************)
Other == [name |-> "", args_len |-> 0, kind |-> "other", closure |-> "fixed"]

OpcodeTable == <<
    Other, \* 0x00
    Other, \* 0x01
    [name |-> "JAM", args_len |-> 0, kind |-> "stop", closure |-> "fixed"], \* 0x02
    Other, \* 0x03
    Other, \* 0x04
    [name |-> "ORA_ZP", args_len |-> 1, kind |-> "plain", closure |-> "u8"], \* 0x05
    [name |-> "ASL_ZP", args_len |-> 1, kind |-> "plain", closure |-> "u8"], \* 0x06
    Other, \* 0x07
    [name |-> "PHP", args_len |-> 0, kind |-> "plain", closure |-> "fixed"], \* 0x08
    [name |-> "ORA_IMM", args_len |-> 1, kind |-> "plain", closure |-> "u8"], \* 0x09
    [name |-> "ASL", args_len |-> 0, kind |-> "plain", closure |-> "fixed"], \* 0x0a
    Other, \* 0x0b
    Other, \* 0x0c
    Other, \* 0x0d
    Other, \* 0x0e
    Other, \* 0x0f
    [name |-> "BPL_REL", args_len |-> 1, kind |-> "branch", closure |-> "fixed"], \* 0x10
    Other, \* 0x11
    [name |-> "JAM", args_len |-> 0, kind |-> "stop", closure |-> "fixed"], \* 0x12
    Other, \* 0x13
    Other, \* 0x14
    Other, \* 0x15
    Other, \* 0x16
    Other, \* 0x17
    [name |-> "CLC", args_len |-> 0, kind |-> "plain", closure |-> "fixed"], \* 0x18
    Other, \* 0x19
    Other, \* 0x1a
    Other, \* 0x1b
    Other, \* 0x1c
    Other, \* 0x1d
    Other, \* 0x1e
    Other, \* 0x1f
    [name |-> "JSR_ABS", args_len |-> 2, kind |-> "jsr", closure |-> "fixed"], \* 0x20
    Other, \* 0x21
    [name |-> "JAM", args_len |-> 0, kind |-> "stop", closure |-> "fixed"], \* 0x22
    Other, \* 0x23
    [name |-> "BIT_ZP", args_len |-> 1, kind |-> "plain", closure |-> "u8"], \* 0x24
    [name |-> "AND_ZP", args_len |-> 1, kind |-> "plain", closure |-> "u8"], \* 0x25
    Other, \* 0x26
    Other, \* 0x27
    [name |-> "PLP", args_len |-> 0, kind |-> "plain", closure |-> "fixed"], \* 0x28
    [name |-> "AND_IMM", args_len |-> 1, kind |-> "plain", closure |-> "u8"], \* 0x29
    [name |-> "ROL", args_len |-> 0, kind |-> "plain", closure |-> "fixed"], \* 0x2a
    Other, \* 0x2b
    Other, \* 0x2c
    Other, \* 0x2d
    Other, \* 0x2e
    Other, \* 0x2f
    [name |-> "BMI_REL", args_len |-> 1, kind |-> "branch", closure |-> "fixed"], \* 0x30
    Other, \* 0x31
    [name |-> "JAM", args_len |-> 0, kind |-> "stop", closure |-> "fixed"], \* 0x32
    Other, \* 0x33
    Other, \* 0x34
    [name |-> "AND_ZP_X", args_len |-> 1, kind |-> "plain", closure |-> "u8"], \* 0x35
    Other, \* 0x36
    Other, \* 0x37
    [name |-> "SEC", args_len |-> 0, kind |-> "plain", closure |-> "fixed"], \* 0x38
    Other, \* 0x39
    Other, \* 0x3a
    Other, \* 0x3b
    Other, \* 0x3c
    Other, \* 0x3d
    Other, \* 0x3e
    Other, \* 0x3f
    [name |-> "RTI", args_len |-> 0, kind |-> "stop", closure |-> "fixed"], \* 0x40
    Other, \* 0x41
    [name |-> "JAM", args_len |-> 0, kind |-> "stop", closure |-> "fixed"], \* 0x42
    Other, \* 0x43
    Other, \* 0x44
    [name |-> "EOR_ZP", args_len |-> 1, kind |-> "plain", closure |-> "u8"], \* 0x45
    [name |-> "LSR_ZP", args_len |-> 1, kind |-> "plain", closure |-> "u8"], \* 0x46
    Other, \* 0x47
    [name |-> "PHA", args_len |-> 0, kind |-> "plain", closure |-> "fixed"], \* 0x48
    [name |-> "EOR_IMM", args_len |-> 1, kind |-> "plain", closure |-> "u8"], \* 0x49
    [name |-> "LSR", args_len |-> 0, kind |-> "plain", closure |-> "fixed"], \* 0x4a
    Other, \* 0x4b
    [name |-> "JMP_ABS", args_len |-> 2, kind |-> "jmp", closure |-> "fixed"], \* 0x4c
    [name |-> "EOR_ABS", args_len |-> 2, kind |-> "plain", closure |-> "u16"], \* 0x4d
    Other, \* 0x4e
    Other, \* 0x4f
    Other, \* 0x50
    Other, \* 0x51
    [name |-> "JAM", args_len |-> 0, kind |-> "stop", closure |-> "fixed"], \* 0x52
    Other, \* 0x53
    Other, \* 0x54
    Other, \* 0x55
    Other, \* 0x56
    Other, \* 0x57
    Other, \* 0x58
    Other, \* 0x59
    Other, \* 0x5a
    Other, \* 0x5b
    Other, \* 0x5c
    Other, \* 0x5d
    Other, \* 0x5e
    Other, \* 0x5f
    [name |-> "RTS", args_len |-> 0, kind |-> "stop", closure |-> "fixed"], \* 0x60
    Other, \* 0x61
    [name |-> "JAM", args_len |-> 0, kind |-> "stop", closure |-> "fixed"], \* 0x62
    Other, \* 0x63
    Other, \* 0x64
    [name |-> "ADC_ZP", args_len |-> 1, kind |-> "plain", closure |-> "u8"], \* 0x65
    [name |-> "ROR_ZP", args_len |-> 1, kind |-> "plain", closure |-> "u8"], \* 0x66
    Other, \* 0x67
    [name |-> "PLA", args_len |-> 0, kind |-> "plain", closure |-> "fixed"], \* 0x68
    [name |-> "ADC_IMM", args_len |-> 1, kind |-> "plain", closure |-> "u8"], \* 0x69
    [name |-> "ROR", args_len |-> 0, kind |-> "plain", closure |-> "fixed"], \* 0x6a
    Other, \* 0x6b
    Other, \* 0x6c
    [name |-> "ADC_ABS", args_len |-> 2, kind |-> "plain", closure |-> "u16"], \* 0x6d
    Other, \* 0x6e
    Other, \* 0x6f
    Other, \* 0x70
    Other, \* 0x71
    [name |-> "JAM", args_len |-> 0, kind |-> "stop", closure |-> "fixed"], \* 0x72
    Other, \* 0x73
    Other, \* 0x74
    Other, \* 0x75
    Other, \* 0x76
    Other, \* 0x77
    [name |-> "SEI", args_len |-> 0, kind |-> "plain", closure |-> "fixed"], \* 0x78
    Other, \* 0x79
    Other, \* 0x7a
    Other, \* 0x7b
    Other, \* 0x7c
    [name |-> "ADC_ABS_X", args_len |-> 2, kind |-> "plain", closure |-> "u16"], \* 0x7d
    Other, \* 0x7e
    Other, \* 0x7f
    Other, \* 0x80
    Other, \* 0x81
    Other, \* 0x82
    Other, \* 0x83
    [name |-> "STY_ZP", args_len |-> 1, kind |-> "plain", closure |-> "u8"], \* 0x84
    [name |-> "STA_ZP", args_len |-> 1, kind |-> "plain", closure |-> "u8"], \* 0x85
    [name |-> "STX_ZP", args_len |-> 1, kind |-> "plain", closure |-> "u8"], \* 0x86
    Other, \* 0x87
    [name |-> "DEY", args_len |-> 0, kind |-> "plain", closure |-> "fixed"], \* 0x88
    Other, \* 0x89
    [name |-> "TXA", args_len |-> 0, kind |-> "plain", closure |-> "fixed"], \* 0x8a
    Other, \* 0x8b
    [name |-> "STY_ABS", args_len |-> 2, kind |-> "plain", closure |-> "u16"], \* 0x8c
    [name |-> "STA_ABS", args_len |-> 2, kind |-> "plain", closure |-> "u16"], \* 0x8d
    [name |-> "STX_ABS", args_len |-> 2, kind |-> "plain", closure |-> "u16"], \* 0x8e
    Other, \* 0x8f
    [name |-> "BCC_REL", args_len |-> 1, kind |-> "branch", closure |-> "fixed"], \* 0x90
    [name |-> "STA_IND_Y", args_len |-> 1, kind |-> "plain", closure |-> "u8"], \* 0x91
    [name |-> "JAM", args_len |-> 0, kind |-> "stop", closure |-> "fixed"], \* 0x92
    Other, \* 0x93
    [name |-> "STY_ZP_X", args_len |-> 1, kind |-> "plain", closure |-> "u8"], \* 0x94
    [name |-> "STA_ZP_X", args_len |-> 1, kind |-> "plain", closure |-> "u8"], \* 0x95
    Other, \* 0x96
    Other, \* 0x97
    [name |-> "TYA", args_len |-> 0, kind |-> "plain", closure |-> "fixed"], \* 0x98
    [name |-> "STA_ABS_Y", args_len |-> 2, kind |-> "plain", closure |-> "u16"], \* 0x99
    [name |-> "TXS", args_len |-> 0, kind |-> "plain", closure |-> "fixed"], \* 0x9a
    Other, \* 0x9b
    Other, \* 0x9c
    [name |-> "STA_ABS_X", args_len |-> 2, kind |-> "plain", closure |-> "u16"], \* 0x9d
    Other, \* 0x9e
    Other, \* 0x9f
    [name |-> "LDY_IMM", args_len |-> 1, kind |-> "plain", closure |-> "u8"], \* 0xa0
    Other, \* 0xa1
    [name |-> "LDX_IMM", args_len |-> 1, kind |-> "plain", closure |-> "u8"], \* 0xa2
    Other, \* 0xa3
    [name |-> "LDY_ZP", args_len |-> 1, kind |-> "plain", closure |-> "u8"], \* 0xa4
    [name |-> "LDA_ZP", args_len |-> 1, kind |-> "plain", closure |-> "u8"], \* 0xa5
    [name |-> "LDX_ZP", args_len |-> 1, kind |-> "plain", closure |-> "u8"], \* 0xa6
    Other, \* 0xa7
    [name |-> "TAY", args_len |-> 0, kind |-> "plain", closure |-> "fixed"], \* 0xa8
    [name |-> "LDA_IMM", args_len |-> 1, kind |-> "plain", closure |-> "u8"], \* 0xa9
    [name |-> "TAX", args_len |-> 0, kind |-> "plain", closure |-> "fixed"], \* 0xaa
    Other, \* 0xab
    [name |-> "LDY_ABS", args_len |-> 2, kind |-> "plain", closure |-> "u16"], \* 0xac
    [name |-> "LDA_ABS", args_len |-> 2, kind |-> "plain", closure |-> "u16"], \* 0xad
    [name |-> "LDX_ABS", args_len |-> 2, kind |-> "plain", closure |-> "u16"], \* 0xae
    Other, \* 0xaf
    [name |-> "BCS_REL", args_len |-> 1, kind |-> "branch", closure |-> "fixed"], \* 0xb0
    [name |-> "LDA_IND_Y", args_len |-> 1, kind |-> "plain", closure |-> "u8"], \* 0xb1
    [name |-> "JAM", args_len |-> 0, kind |-> "stop", closure |-> "fixed"], \* 0xb2
    Other, \* 0xb3
    [name |-> "LDY_ZP_X", args_len |-> 1, kind |-> "plain", closure |-> "u8"], \* 0xb4
    [name |-> "LDA_ZP_X", args_len |-> 1, kind |-> "plain", closure |-> "u8"], \* 0xb5
    Other, \* 0xb6
    Other, \* 0xb7
    Other, \* 0xb8
    [name |-> "LDA_ABS_Y", args_len |-> 2, kind |-> "plain", closure |-> "u16"], \* 0xb9
    Other, \* 0xba
    Other, \* 0xbb
    [name |-> "LDY_ABS_X", args_len |-> 2, kind |-> "plain", closure |-> "u16"], \* 0xbc
    [name |-> "LDA_ABS_X", args_len |-> 2, kind |-> "plain", closure |-> "u16"], \* 0xbd
    [name |-> "LDX_ABS_Y", args_len |-> 2, kind |-> "plain", closure |-> "u16"], \* 0xbe
    Other, \* 0xbf
    [name |-> "CPY_IMM", args_len |-> 1, kind |-> "plain", closure |-> "u8"], \* 0xc0
    Other, \* 0xc1
    Other, \* 0xc2
    Other, \* 0xc3
    [name |-> "CPY_ZP", args_len |-> 1, kind |-> "plain", closure |-> "u8"], \* 0xc4
    [name |-> "CMP_ZP", args_len |-> 1, kind |-> "plain", closure |-> "u8"], \* 0xc5
    [name |-> "DEC_ZP", args_len |-> 1, kind |-> "plain", closure |-> "u8"], \* 0xc6
    Other, \* 0xc7
    [name |-> "INY", args_len |-> 0, kind |-> "plain", closure |-> "fixed"], \* 0xc8
    [name |-> "CMP_IMM", args_len |-> 1, kind |-> "plain", closure |-> "u8"], \* 0xc9
    [name |-> "DEX", args_len |-> 0, kind |-> "plain", closure |-> "fixed"], \* 0xca
    Other, \* 0xcb
    Other, \* 0xcc
    [name |-> "CMP_ABS", args_len |-> 2, kind |-> "plain", closure |-> "u16"], \* 0xcd
    [name |-> "DEC_ABS", args_len |-> 2, kind |-> "plain", closure |-> "u16"], \* 0xce
    Other, \* 0xcf
    [name |-> "BNE_REL", args_len |-> 1, kind |-> "branch", closure |-> "fixed"], \* 0xd0
    Other, \* 0xd1
    [name |-> "JAM", args_len |-> 0, kind |-> "stop", closure |-> "fixed"], \* 0xd2
    Other, \* 0xd3
    Other, \* 0xd4
    [name |-> "CMP_ZP_X", args_len |-> 1, kind |-> "plain", closure |-> "u8"], \* 0xd5
    [name |-> "DEC_ZP_X", args_len |-> 1, kind |-> "plain", closure |-> "u8"], \* 0xd6
    Other, \* 0xd7
    [name |-> "CLD", args_len |-> 0, kind |-> "plain", closure |-> "fixed"], \* 0xd8
    [name |-> "CMP_ABS_Y", args_len |-> 2, kind |-> "plain", closure |-> "u16"], \* 0xd9
    Other, \* 0xda
    Other, \* 0xdb
    Other, \* 0xdc
    [name |-> "CMP_ABS_X", args_len |-> 2, kind |-> "plain", closure |-> "u16"], \* 0xdd
    [name |-> "DEC_ABS_X", args_len |-> 2, kind |-> "plain", closure |-> "u16"], \* 0xde
    Other, \* 0xdf
    [name |-> "CPX_IMM", args_len |-> 1, kind |-> "plain", closure |-> "u8"], \* 0xe0
    Other, \* 0xe1
    Other, \* 0xe2
    Other, \* 0xe3
    [name |-> "CPX_ZP", args_len |-> 1, kind |-> "plain", closure |-> "u8"], \* 0xe4
    [name |-> "SBC_ZP", args_len |-> 1, kind |-> "plain", closure |-> "u8"], \* 0xe5
    [name |-> "INC_ZP", args_len |-> 1, kind |-> "plain", closure |-> "u8"], \* 0xe6
    Other, \* 0xe7
    [name |-> "INX", args_len |-> 0, kind |-> "plain", closure |-> "fixed"], \* 0xe8
    [name |-> "SBC_IMM", args_len |-> 1, kind |-> "plain", closure |-> "u8"], \* 0xe9
    Other, \* 0xea
    Other, \* 0xeb
    Other, \* 0xec
    Other, \* 0xed
    [name |-> "INC_ABS", args_len |-> 2, kind |-> "plain", closure |-> "u16"], \* 0xee
    Other, \* 0xef
    [name |-> "BEQ_REL", args_len |-> 1, kind |-> "branch", closure |-> "fixed"], \* 0xf0
    Other, \* 0xf1
    [name |-> "JAM", args_len |-> 0, kind |-> "stop", closure |-> "fixed"], \* 0xf2
    Other, \* 0xf3
    Other, \* 0xf4
    Other, \* 0xf5
    [name |-> "INC_ZP_X", args_len |-> 1, kind |-> "plain", closure |-> "u8"], \* 0xf6
    Other, \* 0xf7
    Other, \* 0xf8
    Other, \* 0xf9
    Other, \* 0xfa
    Other, \* 0xfb
    Other, \* 0xfc
    [name |-> "SBC_ABS_X", args_len |-> 2, kind |-> "plain", closure |-> "u16"], \* 0xfd
    [name |-> "INC_ABS_X", args_len |-> 2, kind |-> "plain", closure |-> "u16"], \* 0xfe
    Other  \* 0xff
>>

OpcodeArm(op) == OpcodeTable[op + 1]

(***************************************************************************)
(* Instruction::to_write_string (instruction.rs 114-253): the mnemonic     *)
(* and the formatter each variant is rendered with.                        *)
(***************************************************************************)
InstructionText(name) ==
    CASE name = "ORA_ZP" -> [mnemonic |-> "ora", mode |-> "zp"]
      [] name = "ASL_ZP" -> [mnemonic |-> "asl", mode |-> "zp"]
      [] name = "PHP" -> [mnemonic |-> "php", mode |-> "impl"]
      [] name = "ORA_IMM" -> [mnemonic |-> "ora", mode |-> "imm"]
      [] name = "ASL" -> [mnemonic |-> "asl", mode |-> "impl"]
      [] name = "BPL_REL" -> [mnemonic |-> "bpl", mode |-> "label"]
      [] name = "CLC" -> [mnemonic |-> "clc", mode |-> "impl"]
      [] name = "JSR_ABS" -> [mnemonic |-> "jsr", mode |-> "label"]
      [] name = "BIT_ZP" -> [mnemonic |-> "bit", mode |-> "zp"]
      [] name = "AND_ZP" -> [mnemonic |-> "and", mode |-> "zp"]
      [] name = "PLP" -> [mnemonic |-> "plp", mode |-> "impl"]
      [] name = "AND_IMM" -> [mnemonic |-> "and", mode |-> "imm"]
      [] name = "ROL" -> [mnemonic |-> "rol", mode |-> "impl"]
      [] name = "BMI_REL" -> [mnemonic |-> "bmi", mode |-> "label"]
      [] name = "AND_ZP_X" -> [mnemonic |-> "and", mode |-> "zp_x"]
      [] name = "SEC" -> [mnemonic |-> "sec", mode |-> "impl"]
      [] name = "RTI" -> [mnemonic |-> "rti", mode |-> "impl"]
      [] name = "EOR_ZP" -> [mnemonic |-> "eor", mode |-> "zp"]
      [] name = "LSR_ZP" -> [mnemonic |-> "lsr", mode |-> "zp"]
      [] name = "PHA" -> [mnemonic |-> "pha", mode |-> "impl"]
      [] name = "EOR_IMM" -> [mnemonic |-> "eor", mode |-> "imm"]
      [] name = "LSR" -> [mnemonic |-> "lsr", mode |-> "impl"]
      [] name = "JMP_ABS" -> [mnemonic |-> "jmp", mode |-> "label"]
      [] name = "EOR_ABS" -> [mnemonic |-> "eor", mode |-> "abs"]
      [] name = "RTS" -> [mnemonic |-> "rts", mode |-> "impl"]
      [] name = "ADC_ZP" -> [mnemonic |-> "adc", mode |-> "zp"]
      [] name = "ROR_ZP" -> [mnemonic |-> "ror", mode |-> "zp"]
      [] name = "PLA" -> [mnemonic |-> "pla", mode |-> "impl"]
      [] name = "ADC_IMM" -> [mnemonic |-> "adc", mode |-> "imm"]
      [] name = "ROR" -> [mnemonic |-> "ror", mode |-> "impl"]
      [] name = "ADC_ABS" -> [mnemonic |-> "adc", mode |-> "abs"]
      [] name = "SEI" -> [mnemonic |-> "sei", mode |-> "impl"]
      [] name = "ADC_ABS_X" -> [mnemonic |-> "adc", mode |-> "abs_x"]
      [] name = "STY_ZP" -> [mnemonic |-> "sty", mode |-> "zp"]
      [] name = "STA_ZP" -> [mnemonic |-> "sta", mode |-> "zp"]
      [] name = "STX_ZP" -> [mnemonic |-> "stx", mode |-> "zp"]
      [] name = "DEY" -> [mnemonic |-> "dey", mode |-> "impl"]
      [] name = "TXA" -> [mnemonic |-> "txa", mode |-> "impl"]
      [] name = "STY_ABS" -> [mnemonic |-> "sty", mode |-> "abs"]
      [] name = "STA_ABS" -> [mnemonic |-> "sta", mode |-> "abs"]
      [] name = "STX_ABS" -> [mnemonic |-> "stx", mode |-> "abs"]
      [] name = "BCC_REL" -> [mnemonic |-> "bcc", mode |-> "label"]
      [] name = "STA_IND_Y" -> [mnemonic |-> "sta", mode |-> "ind_y"]
      [] name = "STY_ZP_X" -> [mnemonic |-> "sty", mode |-> "zp_x"]
      [] name = "STA_ZP_X" -> [mnemonic |-> "sta", mode |-> "zp_x"]
      [] name = "TYA" -> [mnemonic |-> "tya", mode |-> "impl"]
      [] name = "STA_ABS_Y" -> [mnemonic |-> "sta", mode |-> "abs_y"]
      [] name = "TXS" -> [mnemonic |-> "txs", mode |-> "impl"]
      [] name = "STA_ABS_X" -> [mnemonic |-> "sta", mode |-> "abs_x"]
      [] name = "LDY_IMM" -> [mnemonic |-> "ldy", mode |-> "imm"]
      [] name = "LDX_IMM" -> [mnemonic |-> "ldx", mode |-> "imm"]
      [] name = "LDY_ZP" -> [mnemonic |-> "ldy", mode |-> "zp"]
      [] name = "LDA_ZP" -> [mnemonic |-> "lda", mode |-> "zp"]
      [] name = "LDX_ZP" -> [mnemonic |-> "ldx", mode |-> "zp"]
      [] name = "LDA_IMM" -> [mnemonic |-> "lda", mode |-> "imm"]
      [] name = "TAX" -> [mnemonic |-> "tax", mode |-> "impl"]
      [] name = "TAY" -> [mnemonic |-> "tay", mode |-> "impl"]
      [] name = "LDY_ABS" -> [mnemonic |-> "ldy", mode |-> "abs"]
      [] name = "LDA_ABS" -> [mnemonic |-> "lda", mode |-> "abs"]
      [] name = "LDX_ABS" -> [mnemonic |-> "ldx", mode |-> "abs"]
      [] name = "BCS_REL" -> [mnemonic |-> "bcs", mode |-> "label"]
      [] name = "LDA_IND_Y" -> [mnemonic |-> "lda", mode |-> "ind_y"]
      [] name = "LDY_ZP_X" -> [mnemonic |-> "ldy", mode |-> "zp_x"]
      [] name = "LDA_ZP_X" -> [mnemonic |-> "lda", mode |-> "zp_x"]
      [] name = "LDA_ABS_Y" -> [mnemonic |-> "lda", mode |-> "abs_y"]
      [] name = "LDY_ABS_X" -> [mnemonic |-> "ldy", mode |-> "abs_x"]
      [] name = "LDA_ABS_X" -> [mnemonic |-> "lda", mode |-> "abs_x"]
      [] name = "LDX_ABS_Y" -> [mnemonic |-> "ldx", mode |-> "abs_y"]
      [] name = "CPY_IMM" -> [mnemonic |-> "cpy", mode |-> "imm"]
      [] name = "CPY_ZP" -> [mnemonic |-> "cpy", mode |-> "zp"]
      [] name = "CMP_ZP" -> [mnemonic |-> "cmp", mode |-> "zp"]
      [] name = "DEC_ZP" -> [mnemonic |-> "dec", mode |-> "zp"]
      [] name = "INY" -> [mnemonic |-> "iny", mode |-> "impl"]
      [] name = "CMP_IMM" -> [mnemonic |-> "cmp", mode |-> "imm"]
      [] name = "DEX" -> [mnemonic |-> "dex", mode |-> "impl"]
      [] name = "CMP_ABS" -> [mnemonic |-> "cmp", mode |-> "abs"]
      [] name = "DEC_ABS" -> [mnemonic |-> "dec", mode |-> "abs"]
      [] name = "BNE_REL" -> [mnemonic |-> "bne", mode |-> "label"]
      [] name = "CMP_ZP_X" -> [mnemonic |-> "dec", mode |-> "zp_x"]
      [] name = "DEC_ZP_X" -> [mnemonic |-> "dec", mode |-> "zp_x"]
      [] name = "CLD" -> [mnemonic |-> "cld", mode |-> "impl"]
      [] name = "CMP_ABS_Y" -> [mnemonic |-> "cmp", mode |-> "abs_y"]
      [] name = "CMP_ABS_X" -> [mnemonic |-> "cmp", mode |-> "abs_x"]
      [] name = "DEC_ABS_X" -> [mnemonic |-> "dec", mode |-> "abs_x"]
      [] name = "CPX_IMM" -> [mnemonic |-> "cpx", mode |-> "imm"]
      [] name = "CPX_ZP" -> [mnemonic |-> "cpx", mode |-> "zp"]
      [] name = "SBC_ZP" -> [mnemonic |-> "sbc", mode |-> "zp"]
      [] name = "INC_ZP" -> [mnemonic |-> "inc", mode |-> "zp"]
      [] name = "INX" -> [mnemonic |-> "inx", mode |-> "impl"]
      [] name = "SBC_IMM" -> [mnemonic |-> "sbc", mode |-> "imm"]
      [] name = "INC_ABS" -> [mnemonic |-> "inc", mode |-> "abs"]
      [] name = "BEQ_REL" -> [mnemonic |-> "beq", mode |-> "label"]
      [] name = "INC_ZP_X" -> [mnemonic |-> "inc", mode |-> "zp_x"]
      [] name = "SBC_ABS_X" -> [mnemonic |-> "sbc", mode |-> "abs_x"]
      [] name = "INC_ABS_X" -> [mnemonic |-> "inc", mode |-> "abs_x"]
      [] name = "JAM" -> [mnemonic |-> "jam", mode |-> "impl"]

(***************************************************************************)
(* The address <-> offset closures of disassemble_entry_points             *)
(* (nes_disassembler.rs 469-480).  They compute in usize: with overflow    *)
(* checks (the debug profile) an underflow panics, without them (release)  *)
(* it wraps modulo 2^64.  A negative offset o stands for the wrapped value *)
(* 2^64 + o, which lies beyond every file.                                 *)
(***************************************************************************)
addr_to_offset_fn(a) ==
    LET d == a - NES_PRG_ROM_START_ADDRESS
        addr == d + NES_HEADER_LENGTH
    IN  IF d < 0 /\ data.overflow_checks
        THEN [panic |-> TRUE, offset |-> 0]
        ELSE IF addr < 0
        THEN [panic |-> FALSE, offset |-> addr - NES_PRG_ROM_PAGE_LENGTH]
        ELSE [panic |-> FALSE,
              offset |-> IF addr > NES_PRG_ROM_PAGE_LENGTH
                         THEN addr - NES_PRG_ROM_PAGE_LENGTH ELSE addr]

offset_to_addr_fn(offset) ==
    LET d == offset - NES_HEADER_LENGTH
    IN  IF d < 0 /\ data.overflow_checks
        THEN [panic |-> TRUE, addr |-> 0]
        ELSE [panic |-> FALSE, addr |-> (d + NES_PRG_ROM_START_ADDRESS) % U16]

(***************************************************************************)
(* Disassembler::disassemble (disassembler.rs 14-688).  An activation is a *)
(* frame [addr, offset, label_prefix, wait, saved]: wait = "run" while it  *)
(* executes its loop, "jsr" or "branch" while the recursive call made by   *)
(* that arm is running, and saved is then the result replace_with_instr    *)
(* gave before the call (jsr_result / result).                             *)
(***************************************************************************)
Frame(addr, offset, label_prefix) ==
    [addr |-> addr, offset |-> offset, label_prefix |-> label_prefix,
     wait |-> "run", saved |-> Ok(0)]

\* lines 22-25: map the address, attach the label
Enter(s, addr, name, label_prefix) ==
    LET m == addr_to_offset_fn(addr)
    IN  IF m.panic \/ ~InRange(m.offset)
        THEN [panic |-> TRUE, s |-> s, frame |-> Frame(addr, 0, label_prefix)]
        ELSE [panic |-> FALSE,
              s |-> set_label(s, m.offset, label_prefix \o "_" \o name),
              frame |-> Frame(addr, m.offset, label_prefix)]

\* format!("{}_{:04x}", label_prefix, addr)
TargetLabel(label_prefix, addr) == label_prefix \o "_" \o fmt_04x(addr)

\* a result handling in which a path goes on behind every decoded instruction, also
\* behind one of size 0
handle_result_falling_through(f, result, set_addr) ==
    IF result.ok
    THEN [k |-> "continue",
          frame |-> [f EXCEPT !.offset = f.offset + 1 + result.v,
                              !.addr = (f.addr + 1 + result.v) % U16,
                              !.wait = "run"]]
    ELSE [k |-> "return",
          r |-> Err(WrappedError(result.err, f.offset, offset_to_addr_fn(f.offset).addr))]

\* lines 662-684: what the loop does with `result` and `set_addr`
handle_result(f, result, set_addr) ==
    IF result.ok
    THEN IF result.v = 0
         THEN IF set_addr # None
              THEN LET m == addr_to_offset_fn(set_addr[1])
                   IN  IF m.panic THEN [k |-> "panic"]
                       ELSE [k |-> "continue",
                             frame |-> [f EXCEPT !.offset = m.offset, !.addr = set_addr[1],
                                                 !.wait = "run"]]
              ELSE [k |-> "return", r |-> Ok(0)]
         ELSE IF f.addr + result.v >= U16 /\ data.overflow_checks
              THEN [k |-> "panic"]
              ELSE [k |-> "continue",
                    frame |-> [f EXCEPT !.offset = f.offset + result.v,
                                        !.addr = (f.addr + result.v) % U16,
                                        !.wait = "run"]]
    ELSE LET a == offset_to_addr_fn(f.offset)
         IN  IF a.panic THEN [k |-> "panic"]
             ELSE [k |-> "return", r |-> Err(WrappedError(result.err, f.offset, a.addr))]

\* what one pass through lines 27-34 finds at the frame's offset
StepKind(s, f) ==
    IF ~InRange(f.offset) THEN "panic"
    ELSE IF is_instruction(s, f.offset) THEN "merge"
    ELSE IF ~get_u8(s, f.offset).ok THEN "badop"
    ELSE OpcodeArm(get_u8(s, f.offset).v).kind

\* the closure a "plain" or "stop" arm hands to replace_with_instr
ArmClosure(arm) ==
    [name |-> arm.name, closure |-> arm.closure, instr |-> Instr(arm.name, 0, "")]

FixedClosure(instr) == [name |-> instr.name, closure |-> "fixed", instr |-> instr]

\* lines 91-93 and 211-213: the two operand peeks of JSR and JMP
PeekTarget(s, offset) ==
    IF ~InRange(offset + 1) THEN [k |-> "panic"]
    ELSE LET l == get_u8(s, offset + 1)
         IN  IF ~l.ok THEN [k |-> "err", r |-> l, bad |-> offset + 1]
             ELSE IF ~InRange(offset + 2) THEN [k |-> "panic"]
             ELSE LET h == get_u8(s, offset + 2)
                  IN  IF ~h.ok THEN [k |-> "err", r |-> h, bad |-> offset + 2]
                      ELSE [k |-> "ok", addr |-> h.v * 256 + l.v]

Top == stack[Len(stack)]
Pop == SubSeq(stack, 1, Len(stack) - 1)

InLoop ==
    /\ status = "running"
    /\ stack # <<>>
    /\ ret = None
    /\ Top.wait = "run"

Driver == <<data, addr_to_variable, prg_rom_count, chr_rom_count, pc, prg_rom_idx,
            vectors, out>>

\* a panic unwinds every activation and ends the process
Panic ==
    /\ status' = "panic"
    /\ stack' = <<>>
    /\ ret' = None
    /\ pc' = "done"
    /\ UNCHANGED <<data, addr_to_variable, prg_rom_count, chr_rom_count, prg_rom_idx,
                   vectors, out, error>>

Continue(frame) ==
    /\ stack' = [stack EXCEPT ![Len(stack)] = frame]
    /\ ret' = None
    /\ UNCHANGED <<Driver, status, error>>

Return(r) ==
    /\ stack' = Pop
    /\ ret' = Some(r)
    /\ UNCHANGED <<Driver, status, error>>

\* a call that does not descend: the caller goes on as if the recursion had returned
Call_without_recursion(caller, callee) ==
    /\ stack' = [stack EXCEPT ![Len(stack)] = caller]
    /\ ret' = Some(Ok(0))
    /\ UNCHANGED <<Driver, status, error>>

Call(caller, callee) ==
    /\ stack' = Append([stack EXCEPT ![Len(stack)] = caller], callee)
    /\ ret' = None
    /\ UNCHANGED <<Driver, status, error>>

Finish(o) ==
    CASE o.k = "panic" -> Panic
      [] o.k = "continue" -> Continue(o.frame)
      [] o.k = "return" -> Return(o.r)

\* line 29 indexes past the end of stmts
StepOutOfRange ==
    /\ UNCHANGED linker
    /\ InLoop
    /\ StepKind(stmts, Top) = "panic"
    /\ Panic
    /\ UNCHANGED <<stmts, unhandled, decoded, failed>>

\* lines 29-31: the offset already holds an Instruction
StepMerge ==
    /\ UNCHANGED linker
    /\ InLoop
    /\ StepKind(stmts, Top) = "merge"
    /\ Return(Ok(0))
    /\ UNCHANGED <<stmts, unhandled, decoded, failed>>

\* line 33: get_u8(offset)? on a cell that is no byte
StepOpcodeError ==
    /\ UNCHANGED linker
    /\ InLoop
    /\ StepKind(stmts, Top) = "badop"
    /\ Return(get_u8(stmts, Top.offset))
    /\ failed' = Append(failed, Top.offset)
    /\ UNCHANGED <<stmts, unhandled, decoded>>

\* the `_` arm as its TODO has it: an unhandled opcode is an error
StepOther_UnhandledInstruction ==
    /\ UNCHANGED linker
    /\ InLoop
    /\ StepKind(stmts, Top) = "other"
    /\ unhandled' = Append(unhandled, get_u8(stmts, Top.offset).v)
    /\ Return(Err(ParseError("unhandled instruction")))
    /\ UNCHANGED <<stmts, decoded, failed>>

\* lines 654-659: the `_` arm
StepOther ==
    /\ UNCHANGED linker
    /\ InLoop
    /\ StepKind(stmts, Top) = "other"
    /\ unhandled' = Append(unhandled, get_u8(stmts, Top.offset).v)
    /\ Return(Ok(0))
    /\ UNCHANGED <<stmts, decoded, failed>>

\* JAM, RTI, RTS: install the instruction, Result::Ok(0), no set_addr
StepStop ==
    /\ UNCHANGED linker
    /\ InLoop
    /\ StepKind(stmts, Top) = "stop"
    /\ LET arm == OpcodeArm(get_u8(stmts, Top.offset).v)
           r == replace_with_instr(stmts, Top.offset, 0, ArmClosure(arm))
       IN  /\ stmts' = r.s
           /\ decoded' = Append(decoded, <<Top.offset, 1>>)
           /\ Finish(handle_result(Top, Ok(0), None))
    /\ UNCHANGED <<unhandled, failed>>

\* the arms that are one replace_with_instr call
StepPlain ==
    /\ UNCHANGED linker
    /\ InLoop
    /\ StepKind(stmts, Top) = "plain"
    /\ LET arm == OpcodeArm(get_u8(stmts, Top.offset).v)
           inside == Min(arm.args_len, DataLen - 1 - Top.offset)
       IN  IF inside < arm.args_len
           THEN \* a take indexes past the end of stmts
                /\ stmts' = TakeArgs(stmts, Top.offset, 0, inside).s
                /\ Panic
                /\ UNCHANGED <<unhandled, decoded, failed>>
           ELSE LET r == replace_with_instr(stmts, Top.offset, arm.args_len, ArmClosure(arm))
                IN  /\ stmts' = r.s
                    /\ decoded' = IF r.res.ok
                                  THEN Append(decoded, <<Top.offset, r.res.v>>)
                                  ELSE decoded
                    /\ failed' = IF r.res.ok THEN failed ELSE Append(failed, r.bad)
                    /\ Finish(handle_result(Top, r.res, None))
                    /\ UNCHANGED unhandled

\* lines 209-221: JMP ABS
StepJmp ==
    /\ UNCHANGED linker
    /\ InLoop
    /\ StepKind(stmts, Top) = "jmp"
    /\ LET p == PeekTarget(stmts, Top.offset)
       IN  CASE p.k = "panic" ->
                  Panic /\ UNCHANGED <<stmts, unhandled, decoded, failed>>
             [] p.k = "err" ->
                  /\ Return(p.r)
                  /\ failed' = Append(failed, p.bad)
                  /\ UNCHANGED <<stmts, unhandled, decoded>>
             [] p.k = "ok" ->
                  LET label == TargetLabel(Top.label_prefix, p.addr)
                      r == replace_with_instr(stmts, Top.offset, 2,
                                              FixedClosure(Instr("JMP_ABS", p.addr, label)))
                  IN  /\ stmts' = r.s
                      /\ decoded' = Append(decoded, <<Top.offset, 3>>)
                      /\ Finish(handle_result(Top, Ok(0), Some(p.addr)))
                      /\ UNCHANGED <<unhandled, failed>>

\* lines 89-109: JSR ABS, up to and including the recursive call's lines 22-25
StepJsr ==
    /\ UNCHANGED linker
    /\ InLoop
    /\ StepKind(stmts, Top) = "jsr"
    /\ LET p == PeekTarget(stmts, Top.offset)
       IN  CASE p.k = "panic" ->
                  Panic /\ UNCHANGED <<stmts, unhandled, decoded, failed>>
             [] p.k = "err" ->
                  /\ Return(p.r)
                  /\ failed' = Append(failed, p.bad)
                  /\ UNCHANGED <<stmts, unhandled, decoded>>
             [] p.k = "ok" ->
                  LET label == TargetLabel(Top.label_prefix, p.addr)
                      r == replace_with_instr(stmts, Top.offset, 2,
                                              FixedClosure(Instr("JSR_ABS", p.addr, label)))
                      e == Enter(r.s, p.addr, fmt_04x(p.addr), Top.label_prefix)
                  IN  /\ decoded' = Append(decoded, <<Top.offset, 3>>)
                      /\ UNCHANGED <<unhandled, failed>>
                      /\ IF e.panic
                         THEN stmts' = r.s /\ Panic
                         ELSE /\ stmts' = e.s
                              /\ Call([Top EXCEPT !.wait = "jsr", !.saved = r.res], e.frame)

\* the REL arms and branch_relative (lines 690-720), up to and including the
\* recursive call's lines 22-25
StepBranch ==
    /\ UNCHANGED linker
    /\ InLoop
    /\ StepKind(stmts, Top) = "branch"
    /\ LET arm == OpcodeArm(get_u8(stmts, Top.offset).v)
       IN  IF ~InRange(Top.offset + 1)
           THEN Panic /\ UNCHANGED <<stmts, unhandled, decoded, failed>>
           ELSE LET rel == get_i8(stmts, Top.offset + 1)
                    sum == (Top.addr + rel.v + U16) % U16
                    new_addr == (sum + 2) % U16
                    label == TargetLabel(Top.label_prefix, new_addr)
                    r == replace_with_instr(stmts, Top.offset, 1,
                                            FixedClosure(Instr(arm.name, rel.v, label)))
                    e == Enter(r.s, new_addr, fmt_04x(new_addr), Top.label_prefix)
                IN  IF ~rel.ok
                    THEN /\ Finish(handle_result(Top, rel, None))
                         /\ failed' = Append(failed, Top.offset + 1)
                         /\ UNCHANGED <<stmts, unhandled, decoded>>
                    ELSE IF sum + 2 >= U16 /\ data.overflow_checks
                    THEN Panic /\ UNCHANGED <<stmts, unhandled, decoded, failed>>
                    ELSE /\ decoded' = Append(decoded, <<Top.offset, 2>>)
                         /\ UNCHANGED <<unhandled, failed>>
                         /\ IF e.panic
                            THEN stmts' = r.s /\ Panic
                            ELSE /\ stmts' = e.s
                                 /\ Call([Top EXCEPT !.wait = "branch", !.saved = r.res],
                                         e.frame)

\* the recursive call of the JSR arm (lines 100-108) or of branch_relative
\* (lines 711-719) has returned
Resume ==
    /\ UNCHANGED linker
    /\ status = "running"
    /\ stack # <<>>
    /\ ret # None
    /\ LET child == ret[1]
       IN  IF Top.wait = "jsr"
           THEN IF child.ok
                THEN Finish(handle_result(Top, Top.saved, None))
                ELSE Return(child)
           ELSE Finish(handle_result(Top, IF child.ok THEN Top.saved ELSE child, None))
    /\ UNCHANGED <<stmts, unhandled, decoded, failed>>

(***************************************************************************)
(* NesDisassembler (nes_disassembler.rs).                                  *)
(***************************************************************************)
\* b"NES\x1a"
Magic == <<78, 69, 83, 26>>

\* is_handled: data[0] == b'N' && data[1] == b'E' && ..., indexing as it goes
RECURSIVE IsHandledFrom(_)
IsHandledFrom(i) ==
    IF i > 4 THEN "yes"
    ELSE IF i > DataLen THEN "panic"
    ELSE IF Data(i - 1) # Magic[i] THEN "no"
    ELSE IsHandledFrom(i + 1)

is_handled == IsHandledFrom(1)

\* <<address, name, kind of value, value>> of every set_variable call
PresetVariables ==
    <<<<8192, "PPU_CTRL", "U16", 8192>>,
      <<8193, "PPU_MASK", "U16", 8193>>,
      <<8194, "PPU_STATUS", "U16", 8194>>,
      <<8195, "OAM_ADDR", "U16", 8195>>,
      <<8196, "OAM_DATA", "U16", 8196>>,
      <<8197, "PPU_SCROLL", "U16", 8197>>,
      <<8198, "PPU_ADDR", "U16", 8198>>,
      <<8199, "PPU_DATA", "U16", 8199>>,
      <<16384, "APU_PULSE_1_ENV", "U16", 16384>>,
      <<16385, "APU_PULSE_1_SWEEP", "U16", 16385>>,
      <<16386, "APU_PULSE_1_TIMER", "U16", 16386>>,
      <<16387, "APU_PULSE_1_LEN", "U16", 16387>>,
      <<16388, "APU_PULSE_2_ENV", "U16", 16388>>,
      <<16389, "APU_PULSE_2_SWEEP", "U16", 16389>>,
      <<16390, "APU_PULSE_2_TIMER", "U16", 16390>>,
      <<16391, "APU_PULSE_2_LEN", "U16", 16391>>,
      <<16392, "APU_TRIANGLE_LEN_CR", "U16", 16392>>,
      <<16393, "APU_TRIANGLE_UNUSED", "U16", 16393>>,
      <<16394, "APU_TRIANGLE_TIMER", "U16", 16394>>,
      <<16395, "APU_TRIANGLE_LOAD", "U16", 16395>>,
      <<16396, "APU_NOISE_ENV", "U16", 16396>>,
      <<16397, "APU_NOISE_UNUSED", "U16", 16397>>,
      <<16398, "APU_NOISE_LP", "U16", 16398>>,
      <<16399, "APU_NOISE_LOAD", "U16", 16399>>,
      <<16400, "APU_DMC_IL__RRRR", "U16", 16400>>,
      <<16401, "APU_DMC_LOAD", "U16", 16401>>,
      <<16402, "APU_DMC_SAMPLE_ADDR", "U16", 16402>>,
      <<16403, "APU_DMC_SAMPLE_LEN", "U16", 16403>>,
      <<16404, "OAM_DMA", "U16", 16404>>,
      <<16405, "APU_CH_ENABLE_STATUS", "U16", 16405>>,
      <<16407, "APU_ALL_FRAME_COUNTER", "U16", 16407>>>>

Variable(name, t, v) == [name |-> name, value |-> [t |-> t, v |-> v]]

set_variables ==
    [a \in {PresetVariables[i][1] : i \in 1..Len(PresetVariables)} |->
        LET i == CHOOSE i \in 1..Len(PresetVariables) : PresetVariables[i][1] = a
        IN  Variable(PresetVariables[i][2], PresetVariables[i][3], PresetVariables[i][4])]

\* the comment parse_header attaches to header byte `offset`, as its lines
HeaderComment(offset) ==
    CASE offset = 4 ->
        <<"PRG ROM count">>
      [] offset = 5 ->
        <<"CHR ROM count">>
      [] offset = 6 ->
        <<"Flags 6",
          "      ++++------ Mapper Number D0..D3",
          "      ||||        1: Yes",
          "      ||||        0: No",
          "      ||||+----- Hard-wired four-screen mode",
          "      |||||       1: Present between Header and PRG-ROM data",
          "      |||||       0: Not present",
          "      |||||+---- 512-byte Trainer",
          "      ||||||      1: Present",
          "      ||||||      0: Not present",
          "      ||||||+--- \"Battery\" and other non-volatile memory",
          "      |||||||     1: Vertical",
          "      |||||||     0: Horizontal or mapper-controlled",
          "      |||||||+-- Hard-wired nametable mirroring type",
          "      NNNNFTBM">>
      [] offset = 7 ->
        <<"Flags 7",
          "      ++++------ Mapper Number D4..D7",
          "      ||||++---- NES 2.0 identifier",
          "      ||||||      3: Extended Console Type",
          "      ||||||      2: Nintendo Playchoice 10",
          "      ||||||      1: Nintendo Vs. System",
          "      ||||||      0: Nintendo Entertainment System/Family Computer",
          "      ||||||++-- Console type",
          "      NNNN10TT">>
      [] offset = 8 ->
        <<"Mapper MSB/Submapper",
          "      ++++------ Submapper number",
          "      ||||++++-- Mapper number D8..D11",
          "      SSSSNNNN">>
      [] offset = 9 ->
        <<"PRG-ROM/CHR-ROM size MSB",
          "      ++++------ CHR-ROM size MSB",
          "      ||||++++-- PRG-ROM size MSB",
          "      CCCCPPPP">>
      [] offset = 10 ->
        <<"PRG-RAM/EEPROM size            ",
          "  If the shift count is zero, there is no PRG-(NV)RAM.",
          "  If the shift count is non-zero, the actual size is",
          "  \"64 << shift count\" bytes, i.e. 8192 bytes for a shift count of 7.",
          "      ++++------ PRG-NVRAM/EEPROM (non-volatile) shift count",
          "      ||||++++-- PRG-RAM (volatile) shift count",
          "      ppppPPPP">>
      [] offset = 11 ->
        <<"CHR-RAM size",
          "  If the shift count is zero, there is no CHR-(NV)RAM.",
          "  If the shift count is non-zero, the actual size is",
          "  \"64 << shift count\" bytes, i.e. 8192 bytes for a shift count of 7.",
          "      ++++------ CHR-NVRAM size (non-volatile) shift count",
          "      ||||++++-- CHR-RAM size (volatile) shift count",
          "      ccccCCCC">>
      [] offset = 12 ->
        <<"CPU/PPU Timing",
          "            ++- CPU/PPU timing mode",
          "            ||   0: RP2C02 (\"NTSC NES\")",
          "            ||   1: RP2C07 (\"Licensed PAL NES\")",
          "            ||   2: Multiple-region",
          "            ||   3: UMC 6527P (\"Dendy\")",
          "      ......VV">>
      [] offset = 13 ->
        <<"When Byte 7 AND 3 =1: Vs. System Type",
          "      ++++------ Vs. Hardware Type",
          "      ||||++++-- Vs. PPU Type",
          "      MMMMPPPP">>
      [] offset = 14 ->
        <<"Miscellaneous ROMs",
          "            ++- Number of miscellaneous ROMs present",
          "      ......RR">>
      [] offset = 15 ->
        <<"Default Expansion Device",
          "        ++++++- Default Expansion Device",
          "      ..DDDDDD">>

\* parse_header, lines 307-424: the cell of the field at `offset` (4..15) after its
\* replace_with_u8 or replace_with_binary_u8 and its set_comment
HeaderField(s, offset) ==
    LET r == IF offset < 6 THEN replace_with_u8(s, offset)
             ELSE replace_with_binary_u8(s, offset)
    IN  Stmt(set_comment(r.s, offset, HeaderComment(offset)), offset)

\* the fields at offsets 4..15 in turn, as far as the file reaches; each call touches
\* the cell of its own field only
HeaderFields(s) ==
    [s EXCEPT !.over = [o \in {f \in 4..(NES_HEADER_LENGTH - 1) : InRange(f)} |->
                            HeaderField(s, o)] @@ s.over]

parse_header(s) ==
    IF /\ is_eq_u8(s, 0, Magic[1]) /\ is_eq_u8(s, 1, Magic[2])
       /\ is_eq_u8(s, 2, Magic[3]) /\ is_eq_u8(s, 3, Magic[4])
    THEN LET s1 == replace(s, 0, 4, DataSeq(<<DataString("NES"), DataHexU8(Magic[4])>>))
             s2 == HeaderFields(set_segment(s1, 0, "HEADER"))
         IN  IF DataLen < NES_HEADER_LENGTH
             THEN [k |-> "panic", s |-> s2]
             ELSE [k |-> "ok", s |-> s2]
    ELSE [k |-> "err", s |-> s, err |-> ParseError("invalid nes header")]

\* parse_chr_rom: the pages it groups; a page the file does not hold makes take index
\* past the end
parse_chr_rom(s) ==
    LET chr_rom_start_addr == NES_HEADER_LENGTH + prg_rom_count * NES_PRG_ROM_PAGE_LENGTH
        held == IF DataLen <= chr_rom_start_addr THEN 0
                ELSE (DataLen - chr_rom_start_addr) \div NES_CHR_ROM_PAGE_LENGTH
    IN  IF held >= chr_rom_count
        THEN [k |-> "ok",
              s |-> [s EXCEPT !.chr = [start |-> chr_rom_start_addr, pages |-> chr_rom_count]]]
        ELSE [k |-> "panic",
              s |-> [s EXCEPT !.chr = [start |-> chr_rom_start_addr, pages |-> held]]]

\* a decode_vector that reads the high byte first
decode_vector_high_first(s, offset, name) ==
    IF ~InRange(offset) THEN [k |-> "panic", s |-> s]
    ELSE LET t1 == take(s, offset)
             high == to_u8(t1.stmt.asm_code)
         IN  IF ~high.ok THEN [k |-> "err", s |-> t1.s, err |-> high.err]
             ELSE IF ~InRange(offset + 1) THEN [k |-> "panic", s |-> t1.s]
             ELSE LET t2 == take(t1.s, offset + 1)
                      low == to_u8(t2.stmt.asm_code)
                      addr == low.v + high.v * 256
                  IN  IF ~low.ok THEN [k |-> "err", s |-> t2.s, err |-> low.err]
                      ELSE [k |-> "ok", addr |-> addr,
                            s |-> set_comment(replace(t2.s, offset, offset + 2,
                                                      DataHexU16(addr)),
                                              offset, <<name>>)]

\* decode_vector
decode_vector(s, offset, name) ==
    IF ~InRange(offset) THEN [k |-> "panic", s |-> s]
    ELSE LET t1 == take(s, offset)
             low == to_u8(t1.stmt.asm_code)
         IN  IF ~low.ok THEN [k |-> "err", s |-> t1.s, err |-> low.err]
             ELSE IF ~InRange(offset + 1) THEN [k |-> "panic", s |-> t1.s]
             ELSE LET t2 == take(t1.s, offset + 1)
                      high == to_u8(t2.stmt.asm_code)
                      addr == low.v + high.v * 256
                  IN  IF ~high.ok THEN [k |-> "err", s |-> t2.s, err |-> high.err]
                      ELSE [k |-> "ok", addr |-> addr,
                            s |-> set_comment(replace(t2.s, offset, offset + 2,
                                                      DataHexU16(addr)),
                                              offset, <<name>>)]

Abort(err) ==
    /\ status' = "err"
    /\ error' = err
    /\ pc' = "done"
    /\ UNCHANGED <<data, addr_to_variable, prg_rom_count, chr_rom_count, prg_rom_idx,
                   vectors, stack, ret, out>>

History == <<unhandled, decoded, failed>>

\* disassemble (mod.rs 42-53) up to d.set_variables() (nes_disassembler.rs 39-56)
Start ==
    /\ UNCHANGED linker
    /\ pc = "start"
    /\ CASE is_handled = "panic" -> Panic
         [] is_handled = "no" -> Abort(ParseError("unhandled file format"))
         [] is_handled = "yes" ->
              /\ addr_to_variable' = set_variables
              /\ pc' = "parse_header"
              /\ UNCHANGED <<data, prg_rom_count, chr_rom_count, prg_rom_idx, vectors,
                             stack, ret, status, error, out>>
    /\ UNCHANGED <<stmts, History>>

ParseHeader ==
    /\ UNCHANGED linker
    /\ pc = "parse_header"
    /\ LET r == parse_header(stmts)
       IN  CASE r.k = "panic" -> stmts' = r.s /\ Panic
             [] r.k = "err" -> stmts' = r.s /\ Abort(r.err)
             [] r.k = "ok" ->
                  /\ stmts' = r.s
                  /\ prg_rom_count' = Data(4)
                  /\ chr_rom_count' = Data(5)
                  /\ pc' = "parse_chr_rom"
                  /\ UNCHANGED <<data, addr_to_variable, prg_rom_idx, vectors, stack, ret,
                                 status, error, out>>
    /\ UNCHANGED History

\* parse_chr_rom, and the first loop test of disassemble_entry_points
ParseChrRom ==
    /\ UNCHANGED linker
    /\ pc = "parse_chr_rom"
    /\ LET r == parse_chr_rom(stmts)
       IN  /\ stmts' = r.s
           /\ IF r.k = "panic" THEN Panic
              ELSE /\ pc' = IF prg_rom_count > 0 THEN "vec_nmi" ELSE "write"
                   /\ UNCHANGED <<data, addr_to_variable, prg_rom_count, chr_rom_count,
                                  prg_rom_idx, vectors, stack, ret, status, error, out>>
    /\ UNCHANGED History

EntryNames == <<"nmi", "reset", "irq">>
VectorNames == <<"NMI", "RESET", "IRQ">>

\* the offset variable of disassemble_entry_points
BankOffset == NES_HEADER_LENGTH + prg_rom_idx * NES_PRG_ROM_PAGE_LENGTH

\* lines 465-467: one decode_vector call
DecodeVector ==
    \E i \in 1..3 :
        /\ UNCHANGED linker
        /\ pc = "vec_" \o EntryNames[i]
        /\ LET r == decode_vector(stmts,
                                  BankOffset + NES_PRG_ROM_PAGE_LENGTH - 2 * (4 - i),
                                  VectorNames[i])
           IN  /\ stmts' = r.s
               /\ CASE r.k = "panic" -> Panic
                    [] r.k = "err" -> Abort(r.err)
                    [] r.k = "ok" ->
                         /\ vectors' = [vectors EXCEPT ![i] = r.addr]
                         /\ pc' = IF i < 3 THEN "vec_" \o EntryNames[i + 1] ELSE "call_nmi"
                         /\ UNCHANGED <<data, addr_to_variable, prg_rom_count,
                                        chr_rom_count, prg_rom_idx, stack, ret, status,
                                        error, out>>
        /\ UNCHANGED History

\* lines 482-502: one self.d.disassemble call, through its lines 22-25
EntryCall ==
    \E i \in 1..3 :
        /\ UNCHANGED linker
        /\ pc = "call_" \o EntryNames[i]
        /\ LET e == Enter(stmts, vectors[i], EntryNames[i], "prgrom" \o fmt_dec(prg_rom_idx))
           IN  IF e.panic
               THEN stmts' = stmts /\ Panic
               ELSE /\ stmts' = e.s
                    /\ stack' = <<e.frame>>
                    /\ pc' = "run_" \o EntryNames[i]
                    /\ UNCHANGED <<data, addr_to_variable, prg_rom_count, chr_rom_count,
                                   prg_rom_idx, vectors, ret, status, error, out>>
        /\ UNCHANGED History

\* the `?` after one self.d.disassemble call
EntryReturn ==
    \E i \in 1..3 :
        /\ UNCHANGED linker
        /\ pc = "run_" \o EntryNames[i]
        /\ status = "running"
        /\ stack = <<>>
        /\ ret # None
        /\ IF ret[1].ok
           THEN /\ pc' = IF i < 3 THEN "call_" \o EntryNames[i + 1] ELSE "segment"
                /\ ret' = None
                /\ UNCHANGED <<data, addr_to_variable, prg_rom_count, chr_rom_count,
                               prg_rom_idx, vectors, stack, status, error, out>>
           ELSE /\ status' = "err"
                /\ error' = ret[1].err
                /\ pc' = "done"
                /\ ret' = None
                /\ UNCHANGED <<data, addr_to_variable, prg_rom_count, chr_rom_count,
                               prg_rom_idx, vectors, stack, out>>
        /\ UNCHANGED <<stmts, History>>

\* lines 504-508: set_segment, offset += NES_PRG_ROM_PAGE_LENGTH, next loop test
NextBank ==
    /\ UNCHANGED linker
    /\ pc = "segment"
    /\ stmts' = set_segment(stmts, BankOffset, "PRGROM" \o fmt_dec(prg_rom_idx))
    /\ prg_rom_idx' = prg_rom_idx + 1
    /\ pc' = IF prg_rom_idx + 1 < prg_rom_count THEN "vec_nmi" ELSE "write"
    /\ UNCHANGED <<data, addr_to_variable, prg_rom_count, chr_rom_count, vectors, stack,
                   ret, status, error, out, History>>

(***************************************************************************)
(* Rendering (code.rs 48-88, 205-248; instruction.rs 114-350;              *)
(* variable.rs 9-16).  A rendering takes the registry and gives the text   *)
(* and the registry it leaves.                                             *)
(***************************************************************************)
\* {:08b}
RECURSIVE fmt_b(_, _)
fmt_b(v, width) ==
    IF width = 0 THEN ""
    ELSE fmt_b(v \div 2, width - 1) \o (IF v % 2 = 1 THEN "1" ELSE "0")

\* {:#010b}
fmt_010b(v) == "0b" \o fmt_b(v, 8)

\* Display for VariableValue
VariableValue_fmt(value) ==
    IF value.t = "U8" THEN "$" \o fmt_02X(value.v) ELSE "$" \o fmt_04X(value.v)

\* HashMap::insert
Insert(reg, addr, variable) ==
    (addr :> variable) @@ reg

\* a to_write_string_zp that binds the address anew whenever it meets it
to_write_string_zp_rebinding(instr, zp_addr, reg) ==
    [text |-> IF zp_addr \in DOMAIN reg
              THEN instr \o " " \o reg[zp_addr].name
              ELSE instr \o " $" \o fmt_02x(zp_addr),
     reg |-> Insert(reg, zp_addr, Variable("ZP_" \o fmt_02X(zp_addr), "U8", zp_addr))]

to_write_string_zp(instr, zp_addr, reg) ==
    IF zp_addr \in DOMAIN reg
    THEN [text |-> instr \o " " \o reg[zp_addr].name, reg |-> reg]
    ELSE [text |-> instr \o " $" \o fmt_02x(zp_addr),
          reg |-> Insert(reg, zp_addr, Variable("ZP_" \o fmt_02X(zp_addr), "U8", zp_addr))]

to_write_string_zp_x(instr, zp_addr, reg) ==
    IF zp_addr \in DOMAIN reg
    THEN [text |-> instr \o " " \o reg[zp_addr].name \o ",x", reg |-> reg]
    ELSE [text |-> instr \o " $" \o fmt_02x(zp_addr) \o ",x",
          reg |-> Insert(reg, zp_addr, Variable("ZP_" \o fmt_02X(zp_addr), "U8", zp_addr))]

to_write_string_abs(instr, addr, reg) ==
    IF addr \in DOMAIN reg
    THEN [text |-> instr \o " " \o reg[addr].name, reg |-> reg]
    ELSE [text |-> instr \o " $" \o fmt_04x(addr),
          reg |-> Insert(reg, addr, Variable("ABS_" \o fmt_04X(addr), "U16", addr))]

to_write_string_abs_x(instr, addr, reg) ==
    IF addr \in DOMAIN reg
    THEN [text |-> instr \o " " \o reg[addr].name, reg |-> reg]
    ELSE [text |-> instr \o " $" \o fmt_04x(addr) \o ",x",
          reg |-> Insert(reg, addr, Variable("ABS_" \o fmt_04X(addr), "U16", addr))]

to_write_string_abs_y(instr, addr, reg) ==
    IF addr \in DOMAIN reg
    THEN [text |-> instr \o " " \o reg[addr].name, reg |-> reg]
    ELSE [text |-> instr \o " $" \o fmt_04x(addr) \o ",y",
          reg |-> Insert(reg, addr, Variable("ABS_" \o fmt_04X(addr), "U16", addr))]

\* Instruction::to_write_string
Instruction_to_write_string(instr, reg) ==
    LET it == InstructionText(instr.name)
        m == it.mnemonic
    IN  CASE it.mode = "impl" -> [text |-> m, reg |-> reg]
          [] it.mode = "imm" -> [text |-> m \o " #$" \o fmt_02x(instr.v), reg |-> reg]
          [] it.mode = "label" -> [text |-> m \o " " \o instr.label, reg |-> reg]
          [] it.mode = "ind_y" -> [text |-> m \o " ($" \o fmt_02x(instr.v) \o "),y", reg |-> reg]
          [] it.mode = "zp" -> to_write_string_zp(m, instr.v, reg)
          [] it.mode = "zp_x" -> to_write_string_zp_x(m, instr.v, reg)
          [] it.mode = "abs" -> to_write_string_abs(m, instr.v, reg)
          [] it.mode = "abs_x" -> to_write_string_abs_x(m, instr.v, reg)
          [] it.mode = "abs_y" -> to_write_string_abs_y(m, instr.v, reg)

\* the element renderings of a DataSeq, joined with ", "
DataElement(code) ==
    CASE code.t = "DataHexU8" -> "$" \o fmt_02X(code.v)
      [] code.t = "DataU8" -> fmt_dec(code.v)
      [] code.t = "DataBinaryU8" -> fmt_010b(code.v)
      [] code.t = "DataString" -> "\"" \o code.str \o "\""

RECURSIVE Join(_, _)
Join(strs, sep) ==
    IF strs = <<>> THEN ""
    ELSE IF Len(strs) = 1 THEN strs[1]
    ELSE strs[1] \o sep \o Join(Tail(strs), sep)

\* AsmCode::to_write_string
to_write_string(code, reg) ==
    CASE code.t = "DataHexU8" -> [text |-> ".byte $" \o fmt_02X(code.v), reg |-> reg]
      [] code.t = "DataHexU16" -> [text |-> ".byte $" \o fmt_04X(code.v), reg |-> reg]
      [] code.t = "DataU8" -> [text |-> ".byte " \o fmt_dec(code.v), reg |-> reg]
      [] code.t = "DataBinaryU8" -> [text |-> ".byte " \o fmt_010b(code.v), reg |-> reg]
      [] code.t = "DataString" -> [text |-> ".byte \"" \o code.str \o "\"", reg |-> reg]
      [] code.t = "DataSeq" ->
           [text |-> ".byte " \o Join([i \in 1..Len(code.seq) |-> DataElement(code.seq[i])],
                                      ", "),
            reg |-> reg]
      [] code.t = "Instruction" ->
           LET r == Instruction_to_write_string(code.instr, reg)
           IN  [text |-> "    " \o r.text, reg |-> r.reg]
      [] code.t = "Used" -> [text |-> "", reg |-> reg]

\* Code::with_comment; a comment is kept as its lines
with_comment(first, comment) ==
    IF comment # None
    THEN IF Len(comment[1]) > 1
         THEN "\n; " \o Join(comment[1], "\n; ") \o "\n" \o fmt_pad25(first)
         ELSE fmt_pad25(first) \o " ; " \o comment[1][1]
    ELSE first

SetMin(S) == CHOOSE x \in S : \A y \in S : x <= y

\* the cells whose rendering reads or writes the registry
Instructions(s) == {o \in DOMAIN s.over : is_instruction(s, o)}

\* a loop over self.stmts, as far as the registry goes: render the cells of todo in
\* ascending offset order
RECURSIVE RenderAll(_, _, _)
RenderAll(s, todo, reg) ==
    IF todo = {} THEN reg
    ELSE LET o == SetMin(todo)
             r == to_write_string(Stmt(s, o).asm_code, reg)
         IN  IF r.reg = reg
             THEN RenderAll(s, todo \ {o}, reg)
             ELSE RenderAll(s, todo \ {o}, r.reg)

\* keys().sorted()
Sorted(S) ==
    [i \in 1..Cardinality(S) |-> CHOOSE a \in S : Cardinality({b \in S : b < a}) = i - 1]

\* write, second loop: the .define lines by ascending address
Defines(reg) ==
    LET keys == Sorted(DOMAIN reg)
    IN  [i \in 1..Len(keys) |->
            ".define " \o fmt_pad25(reg[keys[i]].name) \o " = "
            \o VariableValue_fmt(reg[keys[i]].value)]

\* a third loop that writes the empty rendering of a tombstone as a line
CellLines_with_tombstones(c, reg) ==
    (IF c.segment # None
     THEN <<"\n; -------------------------- " \o c.segment[1]
            \o " -----------------------\n.segment \"" \o c.segment[1] \o "\"">>
     ELSE <<>>)
    \o (IF c.label # None THEN <<c.label[1] \o ":">> ELSE <<>>)
    \o <<with_comment(to_write_string(c.asm_code, reg).text, c.comment)>>

\* write, third loop, one cell: what it hands to writeln!
CellLines(c, reg) ==
    IF c.asm_code.t = "Used" THEN <<>>
    ELSE (IF c.segment # None
          THEN <<"\n; -------------------------- " \o c.segment[1]
                 \o " -----------------------\n.segment \"" \o c.segment[1] \o "\"">>
          ELSE <<>>)
         \o (IF c.label # None THEN <<c.label[1] \o ":">> ELSE <<>>)
         \o <<with_comment(to_write_string(c.asm_code, reg).text, c.comment)>>

\* the third loop over the cells of todo: what it writes, cell after cell by ascending
\* offset
RECURSIVE InOffsetOrder(_, _)
InOffsetOrder(cells, todo) ==
    IF todo = {} THEN <<>>
    ELSE cells[SetMin(todo)] \o InOffsetOrder(cells, todo \ {SetMin(todo)})

\* a write that renders every cell once, with the registry as the cells before it left it
write_in_one_pass(s, reg0) ==
    LET cells == [o \in DOMAIN s.over |->
                     CellLines(Stmt(s, o),
                               RenderAll(s, {i \in Instructions(s) : i < o}, reg0))]
    IN  [written |-> TRUE,
         defines |-> Defines(RenderAll(s, Instructions(s), reg0)),
         cells |-> cells,
         lines |-> Defines(RenderAll(s, Instructions(s), reg0))
                   \o InOffsetOrder(cells, DOMAIN cells),
         reg |-> RenderAll(s, Instructions(s), reg0)]

\* a write whose .define lines follow the cells
write_defines_last(s, reg0) ==
    LET reg1 == RenderAll(s, Instructions(s), reg0)
        cells == [o \in DOMAIN s.over |->
                     CellLines(Stmt(s, o),
                               RenderAll(s, {i \in Instructions(s) : i < o}, reg1))]
    IN  [written |-> TRUE,
         defines |-> Defines(reg1),
         cells |-> cells,
         lines |-> InOffsetOrder(cells, DOMAIN cells) \o Defines(reg1),
         reg |-> RenderAll(s, Instructions(s), reg1)]

(***************************************************************************)
(* Code::write.  The listing is kept as the .define lines and, per offset  *)
(* of a cell the run has written, what the third loop writes for it; the   *)
(* cells the run never wrote render as Written gives them.  lines is what  *)
(* the sink receives, in the order it receives it, for the .define lines   *)
(* and the cells the run has written.  reg is the local addr_to_variable   *)
(* when write returns.                                                     *)
(***************************************************************************)
write(s, reg0) ==
    LET reg1 == RenderAll(s, Instructions(s), reg0)
        cells == [o \in DOMAIN s.over |->
                     CellLines(Stmt(s, o),
                               RenderAll(s, {i \in Instructions(s) : i < o}, reg1))]
    IN  [written |-> TRUE,
         defines |-> Defines(reg1),
         cells |-> cells,
         lines |-> Defines(reg1) \o InOffsetOrder(cells, DOMAIN cells),
         reg |-> RenderAll(s, Instructions(s), reg1)]

NoOutput ==
    [written |-> FALSE, defines |-> <<>>, cells |-> <<>>, lines |-> <<>>, reg |-> <<>>]

\* what the listing holds for offset o
Written(o) ==
    IF o \in DOMAIN out.cells THEN out.cells[o]
    ELSE CellLines(Stmt(stmts, o), addr_to_variable)

\* d.d.code.write(out)?; return Result::Ok(())
Write ==
    /\ UNCHANGED linker
    /\ pc = "write"
    /\ out' = write(stmts, addr_to_variable)
    /\ status' = "ok"
    /\ pc' = "done"
    /\ UNCHANGED <<data, stmts, addr_to_variable, prg_rom_count, chr_rom_count,
                   prg_rom_idx, vectors, stack, ret, error, History>>

(***************************************************************************)
(* The inputs.  Every input is a well-formed iNES file of one PRG-ROM bank *)
(* whose code window and vectors vary.                                     *)
(***************************************************************************)
Lo(a) == a % U8
Hi(a) == a \div U8

Rom(code, vecs, chr, overflow_checks) ==
    [magic |-> Magic, prg |-> 1, chr |-> chr, code |-> code, vecs |-> <<vecs>>,
     len |-> NES_HEADER_LENGTH + NES_PRG_ROM_PAGE_LENGTH + chr * NES_CHR_ROM_PAGE_LENGTH,
     overflow_checks |-> overflow_checks]

\* NMI, RESET, IRQ at the first byte of an n-byte window, or one of NMI and RESET
\* at its second byte
EntryChoices(n) ==
    {<<CodeAddr(n, 0), CodeAddr(n, 0), CodeAddr(n, 0)>>,
     <<CodeAddr(n, 1), CodeAddr(n, 0), CodeAddr(n, 0)>>,
     <<CodeAddr(n, 0), CodeAddr(n, 1), CodeAddr(n, 0)>>}

\* NMI, RESET and IRQ all at the first byte of an n-byte window
EntryAtStart(n) == <<CodeAddr(n, 0), CodeAddr(n, 0), CodeAddr(n, 0)>>

\* every byte sequence of length n that is a concatenation of members of menu
RECURSIVE Progs(_, _)
Progs(menu, n) ==
    IF n = 0 THEN {<<>>}
    ELSE UNION {{m \o p : p \in Progs(menu, n - Len(m))} : m \in {x \in menu : Len(x) <= n}}

\* jsr, bne, the low byte of the window's first address (inc zp,x as an opcode), $ff
RawBytes == {32, 208, Lo(CodeAddr(RawLen, 0)), 255}

RawRoms ==
    {Rom(code, vecs, 0, TRUE) : code \in [1..RawLen -> RawBytes], vecs \in EntryChoices(RawLen)}

\* jsr and jmp to the window's bytes 0 and 3, jsr to the $ff right before the window,
\* bne to itself and backwards, lda #1
FlowMenu ==
    {<<32, Lo(CodeAddr(ProgLen, 0)), 255>>, <<32, Lo(CodeAddr(ProgLen, 3)), 255>>,
     <<76, Lo(CodeAddr(ProgLen, 0)), 255>>, <<76, Lo(CodeAddr(ProgLen, 3)), 255>>,
     <<32, Lo(CodeAddr(ProgLen, 0)) - 1, 255>>,
     <<208, 254>>, <<208, 251>>, <<169, 1>>}

\* instructions from FlowMenu, then rts or an unhandled opcode; without and with
\* CHR-ROM pages
FlowRoms ==
    {Rom(code \o <<last>>, EntryAtStart(ProgLen), chr, TRUE) :
        code \in Progs(FlowMenu, ProgLen - 1), last \in {96, 255}, chr \in 0..MaxChr}

\* sta $10 / sta $10,x / sta $0010 / sta $0010,x / sta $2000 / sta $2000,x /
\* sta $2000,y / lda $11 / lda ($10),y / bne to the next instruction / jsr $c000 (the
\* first byte of the bank, where its segment begins)
RenderMenu ==
    {<<133, 16>>, <<149, 16>>, <<141, 16, 0>>, <<157, 16, 0>>, <<141, 0, 32>>,
     <<157, 0, 32>>, <<153, 0, 32>>, <<165, 17>>, <<177, 16>>, <<208, 0>>,
     <<32, 0, 192>>}

\* ProgLen - 2 to ProgLen bytes of instructions from RenderMenu, then rts
RenderRoms ==
    {Rom(code \o <<96>>, EntryAtStart(Len(code) + 1), 0, TRUE) :
        code \in UNION {Progs(RenderMenu, n) : n \in (ProgLen - 2)..ProgLen}}

\* jmp $2000 / jsr $2000 / jmp $7ff5 (below the bank) / jmp $bff1 (mapped into the
\* header), lda #1, and a bne that, as the window's first instruction, has its target's
\* `+ 2` pass $ffff
OverflowMenu ==
    {<<76, 0, 32>>, <<32, 0, 32>>, <<76, 245, 127>>, <<76, 241, 191>>, <<169, 1>>,
     <<208, ProgLen + 4>>}

\* instructions from OverflowMenu, built with and without overflow checks
OverflowRoms ==
    {Rom(code, EntryAtStart(ProgLen), 0, overflow_checks) :
        code \in Progs(OverflowMenu, ProgLen), overflow_checks \in BOOLEAN}

\* lda #$01 / sta $2000 / rts
ScenarioD == <<169, 1, 141, 0, 32, 96>>

\* ScenarioD with RESET at its first byte and NMI and IRQ there, at $0000 or at its
\* fifth byte, built with and without overflow checks; and lda #$05 / rts
ScenarioRoms ==
    {Rom(ScenarioD, <<nmi, CodeAddr(Len(ScenarioD), 0), irq>>, 0, overflow_checks) :
        nmi \in {CodeAddr(Len(ScenarioD), 0), 0, CodeAddr(Len(ScenarioD), 4)},
        irq \in {CodeAddr(Len(ScenarioD), 0), 0, CodeAddr(Len(ScenarioD), 4)},
        overflow_checks \in BOOLEAN}
    \cup {Rom(<<169, 5, 96>>, EntryAtStart(3), 0, TRUE)}

\* a file of two PRG-ROM banks: the window and vecs0 in bank 0, vecs1 in bank 1
Rom2(code, vecs0, vecs1, chr) ==
    [magic |-> Magic, prg |-> 2, chr |-> chr, code |-> code, vecs |-> <<vecs0, vecs1>>,
     len |-> NES_HEADER_LENGTH + 2 * NES_PRG_ROM_PAGE_LENGTH + chr * NES_CHR_ROM_PAGE_LENGTH,
     overflow_checks |-> TRUE]

\* lda #1 / rts, a branch to itself, or an unhandled opcode in bank 0; the vectors of
\* bank 1 are those of bank 0, or NMI, RESET and IRQ three bytes apart from $c000 on
TwoBankRoms ==
    {Rom2(code, EntryAtStart(Len(code)), vecs1, chr) :
        code \in {<<169, 1, 96>>, <<208, 254, 96>>, <<255, 255, 255>>},
        vecs1 \in {EntryAtStart(3), <<49152, 49155, 49158>>},
        chr \in 0..MaxChr}

\* files whose first four bytes are not the magic, and files of fewer than four bytes
\* that begin as the magic does or do not
BadMagicRoms ==
    {[Rom(<<96>>, EntryAtStart(1), 0, TRUE) EXCEPT !.magic = magic] :
        magic \in {<<78, 69, 83, 27>>, <<77, 69, 83, 26>>, <<78, 69, 0, 26>>}}
    \cup {[Rom(<<96>>, EntryAtStart(1), 0, TRUE) EXCEPT !.magic = magic, !.len = len] :
            magic \in {Magic, <<78, 70, 83, 26>>}, len \in 0..3}

\* every opcode byte as the first byte of the window, with operand bytes $00 $00 and
\* an rts behind them
OpcodeRoms ==
    {Rom(<<op, 0, 0, 96>>, EntryAtStart(4), 0, TRUE) : op \in 0..(U8 - 1)}

\* jsr to byte 4 / rts / lda #1 / rts, and bne to byte 6 / bne to byte 5 / rts / $ff /
\* rts: targets that lie behind the fall-through successor of their call or branch
DepthRoms ==
    {Rom(code, EntryAtStart(ProgLen), 0, TRUE) :
        code \in {<<32, Lo(CodeAddr(ProgLen, 4)), 255, 96, 169, 1, 96>>,
                  <<208, 4, 208, 1, 96, 255, 96>>}}

Roms ==
    UNION {RawRoms, FlowRoms, RenderRoms, OverflowRoms, ScenarioRoms, TwoBankRoms,
           BadMagicRoms, OpcodeRoms, DepthRoms}

(***************************************************************************)
(* The linker file reader (linker_file.rs).  A parser takes the text that  *)
(* is left of the input and gives [ok, rest, v]: the text it leaves and    *)
(* its value, or ok = FALSE and the nom ErrorKind in v.                    *)
(***************************************************************************)
POk(rest, v) == [ok |-> TRUE, rest |-> rest, v |-> v]
PErr(kind) == [ok |-> FALSE, rest |-> "", v |-> kind]

Digit == {"0", "1", "2", "3", "4", "5", "6", "7", "8", "9"}

\* char::is_ascii_alphabetic
Alpha ==
    {"a", "b", "c", "d", "e", "f", "g", "h", "i", "j", "k", "l", "m",
     "n", "o", "p", "q", "r", "s", "t", "u", "v", "w", "x", "y", "z",
     "A", "B", "C", "D", "E", "F", "G", "H", "I", "J", "K", "L", "M",
     "N", "O", "P", "Q", "R", "S", "T", "U", "V", "W", "X", "Y", "Z"}

\* the characters space0 and multispace0 skip
Space == {" ", "\t"}
Multispace == {" ", "\t", "\r", "\n"}

First(s) == SubSeq(s, 1, 1)
DropFirst(s, n) == SubSeq(s, n + 1, Len(s))

\* the length of the longest prefix of s made of characters of class
RECURSIVE SpanLen(_, _)
SpanLen(s, class) ==
    IF Len(s) = 0 \/ First(s) \notin class THEN 0
    ELSE 1 + SpanLen(DropFirst(s, 1), class)

\* the length of the longest prefix of s without a character of stops
RECURSIVE UntilLen(_, _)
UntilLen(s, stops) ==
    IF Len(s) = 0 \/ First(s) \in stops THEN 0
    ELSE 1 + UntilLen(DropFirst(s, 1), stops)

\* split_at_position_complete / split_at_position1_complete at n
SplitAt(input, n) == POk(DropFirst(input, n), SubSeq(input, 1, n))

\* split_at_position1_complete at n: an empty match is an error
SplitAt1(input, n, kind) == IF n = 0 THEN PErr(kind) ELSE SplitAt(input, n)

\* Result::and_then, and the sequencing of tuple((..)): f runs on the Ok of r, an Err
\* of r is the result
and_then(r, f(_)) == IF r.ok THEN f(r) ELSE r

alpha1(input) == SplitAt1(input, SpanLen(input, Alpha), "Alpha")

alphanumeric1(input) == SplitAt1(input, SpanLen(input, Alpha \cup Digit), "AlphaNumeric")

space0(input) == SplitAt(input, SpanLen(input, Space))

multispace0(input) == SplitAt(input, SpanLen(input, Multispace))

\* char(c)
char(c, input) ==
    IF Len(input) > 0 /\ First(input) = c THEN POk(DropFirst(input, 1), c)
    ELSE PErr("Char")

\* tag(t)
tag(t, input) ==
    IF Len(input) >= Len(t) /\ SubSeq(input, 1, Len(t)) = t
    THEN POk(DropFirst(input, Len(t)), t)
    ELSE PErr("Tag")

\* a not_arg_end that takes an empty value too (split_at_position_complete)
not_arg_end_or_empty(input) == SplitAt(input, UntilLen(input, {",", ";"}))

\* not_arg_end: one or more characters up to the first ',' or ';', or to the end
not_arg_end(input) == SplitAt1(input, UntilLen(input, {",", ";"}), "TakeUntil")

\* arg: tuple((alpha1, multispace0, char('='), multispace0, not_arg_end)), res.0 and res.4
arg(input) ==
    and_then(alpha1(input), LAMBDA key :
    and_then(char("=", multispace0(key.rest).rest), LAMBDA eq :
    and_then(not_arg_end(multispace0(eq.rest).rest), LAMBDA value :
        POk(value.rest, <<key.v, value.v>>))))

\* char(c).delimited_by(space0)
delimited_by_space0(c, input) ==
    and_then(char(c, space0(input).rest), LAMBDA r : POk(space0(r.rest).rest, c))

\* char(c).preceded_by(space0)
preceded_by_space0(c, input) == char(c, space0(input).rest)

\* parse_separated_terminated(arg, char(',').delimited_by(space0),
\* char(';').preceded_by(space0), HashMap::new, insert) after an item: the terminator
\* ends the series, else a separator and one more item follow
RECURSIVE parse_separated_terminated_arg(_, _)
parse_separated_terminated_arg(input, map) ==
    IF preceded_by_space0(";", input).ok
    THEN POk(preceded_by_space0(";", input).rest, map)
    ELSE and_then(delimited_by_space0(",", input), LAMBDA sep :
         and_then(arg(sep.rest), LAMBDA item :
             parse_separated_terminated_arg(item.rest, (item.v[1] :> item.v[2]) @@ map)))

\* HashMap::remove
remove(map, key) == IF key \in DOMAIN map THEN Some(map[key]) ELSE None

\* parse_bool
parse_bool(opt_str) ==
    IF opt_str = None THEN POk("", None)
    ELSE IF opt_str[1] = "yes" THEN POk("", Some(TRUE))
    ELSE IF opt_str[1] = "no" THEN POk("", Some(FALSE))
    ELSE PErr("Tag")

HexDigits == Digit \cup {"a", "b", "c", "d", "e", "f", "A", "B", "C", "D", "E", "F"}

\* char::to_digit(16)
to_digit(c) ==
    IF c \in Digit THEN (CHOOSE i \in 1..10 : UpperHexDigits[i] = c) - 1
    ELSE IF \E i \in 11..16 : UpperHexDigits[i] = c
    THEN (CHOOSE i \in 11..16 : UpperHexDigits[i] = c) - 1
    ELSE (CHOOSE i \in 11..16 : LowerHexDigits[i] = c) - 1

\* the digits of u32::from_str_radix(.., 16): a digit that takes the value past
\* u32::MAX is an error, as is a character that is no digit
RECURSIVE from_digits(_, _, _)
from_digits(src, acc, significant) ==
    IF Len(src) = 0 THEN Some(acc)
    ELSE IF First(src) \notin HexDigits THEN None
    ELSE IF significant = 8 THEN None
    ELSE from_digits(DropFirst(src, 1), acc * 16 + to_digit(First(src)),
                     IF acc = 0 /\ First(src) = "0" THEN 0 ELSE significant + 1)

\* u32::from_str_radix(src, 16): an optional '+', then one or more digits
from_str_radix(src) ==
    IF Len(src) > 0 /\ First(src) = "+"
    THEN IF Len(src) = 1 THEN None ELSE from_digits(DropFirst(src, 1), 0, 0)
    ELSE IF Len(src) = 0 THEN None ELSE from_digits(src, 0, 0)

\* the Result of from_str_radix as parse_u32 maps it
u32_result(parsed) == IF parsed = None THEN PErr("HexDigit") ELSE POk("", parsed)

\* parse_u32
parse_u32(opt_str) ==
    IF opt_str = None THEN POk("", None)
    ELSE IF Len(opt_str[1]) > 0 /\ First(opt_str[1]) = "$"
    THEN u32_result(from_str_radix(DropFirst(opt_str[1], 1)))
    ELSE PErr("HexDigit")

\* memory_segment: the name, ':', the args up to their ';', then the fields of the
\* MemorySegment from the map of the args
memory_segment(input) ==
    and_then(alphanumeric1(input), LAMBDA name :
    and_then(char(":", multispace0(name.rest).rest), LAMBDA colon :
    and_then(arg(multispace0(colon.rest).rest), LAMBDA first :
    and_then(parse_separated_terminated_arg(first.rest, (first.v[1] :> first.v[2])),
             LAMBDA args :
    and_then(parse_bool(remove(args.v, "define")), LAMBDA define :
    and_then(parse_bool(remove(args.v, "fill")), LAMBDA fill :
    and_then(parse_u32(remove(args.v, "size")), LAMBDA size :
    and_then(parse_u32(remove(args.v, "start")), LAMBDA start :
        POk(args.rest,
            <<name.v,
              [file |-> remove(args.v, "file"),
               start |-> start.v,
               size |-> size.v,
               fill |-> fill.v,
               define |-> define.v,
               segment_type |-> remove(args.v, "type")]>>)))))))))

\* parse_separated_terminated(memory_segment, char(';').delimited_by(space0),
\* char('}').preceded_by(space0), HashMap::new, insert) after an item
RECURSIVE parse_separated_terminated_memory_segment(_, _)
parse_separated_terminated_memory_segment(input, map) ==
    IF preceded_by_space0("}", input).ok
    THEN POk(preceded_by_space0("}", input).rest, map)
    ELSE and_then(delimited_by_space0(";", input), LAMBDA sep :
         and_then(memory_segment(sep.rest), LAMBDA item :
             parse_separated_terminated_memory_segment(
                 item.rest, (item.v[1] :> item.v[2]) @@ map)))

\* memory: tag("MEMORY"), multispace0, char('{'), multispace0, the segments; res.4
memory(input) ==
    and_then(tag("MEMORY", input), LAMBDA t :
    and_then(char("{", multispace0(t.rest).rest), LAMBDA brace :
    and_then(memory_segment(multispace0(brace.rest).rest), LAMBDA first :
        parse_separated_terminated_memory_segment(first.rest,
                                                  (first.v[1] :> first.v[2])))))

\* read_linker_from_string: memory, whose value is dropped (`_res`)
read_linker_from_string(input) ==
    and_then(memory(input), LAMBDA r :
        POk(r.rest,
            [symbols |-> None, memory |-> None, segments |-> None, features |-> None]))

(***************************************************************************)
(* The texts the parsers are applied to: a segment name, up to MaxArgs     *)
(* `key = value` args, and a layout (the spacing around '=' and after ',', *)
(* and what follows the closing ';').                                      *)
(***************************************************************************)
MaxArgs == 2

ArgMenu ==
    {<<"file", "\"\"">>, <<"file", "%O">>, <<"file", "">>,
     <<"start", "$0002">>, <<"start", "2">>,
     <<"size", "$001A">>, <<"size", "$1a">>, <<"size", "$">>,
     <<"type", "rw">>,
     <<"define", "yes">>, <<"define", "maybe">>,
     <<"fill", "no">>, <<"fill", "yes ">>,
     <<"align", "$100">>}

Layouts ==
    {[name |-> "ZP", eq |-> " = ", sep |-> ", ", tail |-> ""],
     [name |-> "PRG0", eq |-> "=", sep |-> ",", tail |-> " }"],
     [name |-> "ZP", eq |-> " =\n ", sep |-> ",\t", tail |-> ";x"]}

\* the input of the tests of linker_file.rs
TestSegment ==
    [name |-> "ZP", eq |-> " = ", sep |-> ", ", tail |-> "",
     args |-> <<<<"file", "\"\"">>, <<"start", "$0002">>, <<"size", "$001A">>,
                <<"type", "rw">>, <<"define", "yes">>>>]

LinkerParts ==
    {[name |-> l.name, eq |-> l.eq, sep |-> l.sep, tail |-> l.tail, args |-> args] :
        l \in Layouts, args \in UNION {[1..n -> ArgMenu] : n \in 1..MaxArgs}}
    \cup {TestSegment}

\* key = value, key = value
RECURSIVE ArgsText(_, _)
ArgsText(p, i) ==
    p.args[i][1] \o p.eq \o p.args[i][2]
        \o (IF i = Len(p.args) THEN "" ELSE p.sep \o ArgsText(p, i + 1))

\* NAME: key = value, key = value; and what follows
SegmentText(p) == p.name \o ": " \o ArgsText(p, 1) \o ";" \o p.tail

\* MEMORY { NAME: key = value, key = value; }
MemoryText(p) == "MEMORY { " \o p.name \o ": " \o ArgsText(p, 1) \o "; }"

\* the first arg and the character that ends it
ArgText(p) ==
    p.args[1][1] \o p.eq \o p.args[1][2] \o (IF Len(p.args) = 1 THEN ";" ELSE ",")

NotApplied == [ok |-> FALSE, rest |-> "", v |-> ""]

LinkerIdle == [pc |-> "idle", parts |-> TestSegment, input |-> "", result |-> NotApplied]

\* the disassembler's variables
Disassembler ==
    <<data, stmts, addr_to_variable, prg_rom_count, chr_rom_count, pc, prg_rom_idx,
      vectors, stack, ret, status, error, out, unhandled, decoded, failed>>

\* test_arg: arg applied to the text of an arg and its end
ApplyArg ==
    /\ linker.pc = "input"
    /\ linker' = [linker EXCEPT !.pc = "arg", !.input = ArgText(linker.parts),
                                !.result = arg(ArgText(linker.parts))]
    /\ UNCHANGED Disassembler

\* test_memory_segment: memory_segment applied to the text of a segment
ApplyMemorySegment ==
    /\ linker.pc = "input"
    /\ linker' = [linker EXCEPT !.pc = "memory_segment",
                                !.input = SegmentText(linker.parts),
                                !.result = memory_segment(SegmentText(linker.parts))]
    /\ UNCHANGED Disassembler

\* test_read_linker_from_string: read_linker_from_string applied to a MEMORY block
ApplyReadLinkerFromString ==
    /\ linker.pc = "input"
    /\ linker' = [linker EXCEPT !.pc = "read_linker_from_string",
                                !.input = MemoryText(linker.parts),
                                !.result = read_linker_from_string(MemoryText(linker.parts))]
    /\ UNCHANGED Disassembler

Init ==
    /\ data \in Roms
    /\ stmts = Code_new
    /\ addr_to_variable = <<>>
    /\ prg_rom_count = 0
    /\ chr_rom_count = 0
    /\ pc = "start"
    /\ prg_rom_idx = 0
    /\ vectors = <<0, 0, 0>>
    /\ stack = <<>>
    /\ ret = None
    /\ status = "running"
    /\ error = NoError
    /\ out = NoOutput
    /\ unhandled = <<>>
    /\ decoded = <<>>
    /\ failed = <<>>
    /\ linker = LinkerIdle

Next ==
    \/ Start
    \/ ParseHeader
    \/ ParseChrRom
    \/ DecodeVector
    \/ EntryCall
    \/ StepOutOfRange
    \/ StepMerge
    \/ StepOpcodeError
    \/ StepOther
    \/ StepStop
    \/ StepPlain
    \/ StepJmp
    \/ StepJsr
    \/ StepBranch
    \/ Resume
    \/ EntryReturn
    \/ NextBank
    \/ Write

Spec == Init /\ [][Next]_vars

\* the parsers of the linker file reader applied to the texts of LinkerParts; the
\* disassembler stays as constructed
LinkerInit ==
    /\ linker \in {[LinkerIdle EXCEPT !.pc = "input", !.parts = p] : p \in LinkerParts}
    /\ data = Rom(<<96>>, EntryAtStart(1), 0, TRUE)
    /\ stmts = Code_new
    /\ addr_to_variable = <<>>
    /\ prg_rom_count = 0
    /\ chr_rom_count = 0
    /\ pc = "start"
    /\ prg_rom_idx = 0
    /\ vectors = <<0, 0, 0>>
    /\ stack = <<>>
    /\ ret = None
    /\ status = "running"
    /\ error = NoError
    /\ out = NoOutput
    /\ unhandled = <<>>
    /\ decoded = <<>>
    /\ failed = <<>>

LinkerNext ==
    \/ ApplyArg
    \/ ApplyMemorySegment
    \/ ApplyReadLinkerFromString

LinkerSpec == LinkerInit /\ [][LinkerNext]_vars

(***************************************************************************)
(* Properties.                                                             *)
(***************************************************************************)
IsUsed(o) == Stmt(stmts, o).asm_code.t = "Used"

\* the offsets of decode number i
Range(i) == decoded[i][1]..(decoded[i][1] + decoded[i][2] - 1)

\* C1: every decoded instruction [o, o+1+n) has the Instruction in cell o only and
\* tombstones in cells o+1 .. o+n, and no two instruction ranges overlap.
C1_InstructionRanges ==
    \A i \in 1..Len(decoded) :
        /\ is_instruction(stmts, decoded[i][1])
        /\ \A o \in Range(i) \ {decoded[i][1]} : IsUsed(o)
        /\ \A j \in 1..Len(decoded) : j # i => Range(i) \cap Range(j) = {}

\* C2: no location is decoded twice: a successful decode never makes a head of an offset
\* that was made one before, and none of the cells it uses as opcode or operand was an
\* Instruction or a tombstone.
C2_NeverDecodedTwice ==
    [][Len(decoded') > Len(decoded) =>
          LET e == decoded'[Len(decoded')]
          IN  /\ \A i \in 1..Len(decoded) : decoded[i][1] # e[1]
              /\ \A o \in e[1]..(e[1] + e[2] - 1) :
                    Stmt(stmts, o).asm_code.t \notin {"Instruction", "Used"}]_vars

\* after two decodes a third path ran into a cell that is an Instruction or a tombstone
C2_Witness ==
    /\ Len(decoded) >= 2
    /\ \E i \in 1..Len(failed) : Stmt(stmts, failed[i]).asm_code.t \in {"Instruction", "Used"}
    /\ \E f \in 1..Len(failed), i \in 1..Len(decoded) : failed[f] \in Range(i)

\* how far NesDisassembler::disassemble still has to go, counted in handlers
PcRank ==
    LET banks == prg_rom_count - prg_rom_idx
        pos == CASE pc = "vec_nmi" -> 10 [] pc = "vec_reset" -> 9 [] pc = "vec_irq" -> 8
                 [] pc = "call_nmi" -> 7 [] pc = "run_nmi" -> 6
                 [] pc = "call_reset" -> 5 [] pc = "run_reset" -> 4
                 [] pc = "call_irq" -> 3 [] pc = "run_irq" -> 2
                 [] pc = "segment" -> 1 [] OTHER -> 0
    IN  CASE pc = "done" -> 0
          [] pc = "write" -> 1
          [] pc = "parse_chr_rom" -> 2 + 10 * prg_rom_count
          [] pc = "parse_header" -> 3 + 10 * U8
          [] pc = "start" -> 4 + 10 * U8
          [] OTHER -> 1 + 10 * (banks - 1) + pos

\* the cells that still are bytes
Bytes == DataLen - Cardinality({o \in DOMAIN stmts.over : ~get_u8(stmts, o).ok})

\* a natural number that every step of a run makes smaller
Measure == 4 * PcRank + 3 * Bytes + 2 * Len(stack) + (IF ret # None THEN 1 ELSE 0)

\* C3: every run terminates, cycles in the control flow included: every step makes a
\* measure in the natural numbers smaller, and whenever a jsr or a branch recurses into
\* its target the cell of the jsr or branch already holds its Instruction.
C3_Terminates ==
    [][/\ Measure' < Measure
       /\ Measure' >= 0
       /\ Len(stack') > Len(stack) /\ stack # <<>> => is_instruction(stmts', Top.offset)]_vars

\* a finished run whose listing holds a branch to itself or a call of its own address
C3_Witness ==
    /\ status = "ok"
    /\ \E o \in DOMAIN stmts.over :
          /\ is_instruction(stmts, o)
          /\ \/ /\ Stmt(stmts, o).asm_code.instr.name = "BNE_REL"
                /\ Stmt(stmts, o).asm_code.instr.v = -2
             \/ /\ Stmt(stmts, o).asm_code.instr.name = "JSR_ABS"
                /\ addr_to_offset_fn(Stmt(stmts, o).asm_code.instr.v).offset = o

\* the offset that entry point i of the current bank maps to
EntryOffset(i) == addr_to_offset_fn(vectors[i])

\* C4: a disassemble call on an address whose offset already holds an Instruction does
\* no work: the Store is after the call what it was before it, nothing is decoded, and
\* the call returns success.
C4_IdempotentPerOffset ==
    [][/\ \A i \in 1..3 :
             (/\ pc = "call_" \o EntryNames[i]
              /\ ~EntryOffset(i).panic
              /\ InRange(EntryOffset(i).offset)
              /\ is_instruction(stmts, EntryOffset(i).offset))
             => stmts' = stmts /\ decoded' = decoded
       /\ (InLoop /\ InRange(Top.offset) /\ is_instruction(stmts, Top.offset))
             => stmts' = stmts /\ decoded' = decoded /\ ret' = Some(Ok(0))]_vars

\* the cells of the header, of the first CHR-ROM groups and the ones the run has written
Cells ==
    UNION {DOMAIN stmts.over, 0..(NES_HEADER_LENGTH - 1),
           {o \in (NES_HEADER_LENGTH + NES_PRG_ROM_PAGE_LENGTH)
                    ..(NES_HEADER_LENGTH + NES_PRG_ROM_PAGE_LENGTH + 33) : InRange(o)}}

\* C5: a cell that is a tombstone when a step of the run (header parsing, CHR-ROM
\* grouping, a vector decoding, a step of the traversal) begins is a tombstone when that
\* step ends.
C5_TombstonesStay ==
    [][\A o \in Cells : IsUsed(o) => Stmt(stmts', o).asm_code.t = "Used"]_vars

\* the traversal was sent to a tombstone: an operand of a decoded instruction, or a cell
\* of the header
C5_Witness ==
    /\ pc = "done"
    /\ \E f \in 1..Len(failed) :
          /\ IsUsed(failed[f])
          /\ \/ \E i \in 1..Len(decoded) : failed[f] \in Range(i)
             \/ failed[f] < NES_HEADER_LENGTH

\* C6: a decode failure ends the run with an error that carries the offset of the cell
\* that failed and the address mapped to it.
C6_FailureCarriesOffset ==
    (pc = "done" /\ failed # <<>>) =>
        /\ status = "err"
        /\ \E i \in 1..Len(error.at) :
              /\ error.at[i].offset = failed[1]
              /\ error.at[i].addr = offset_to_addr_fn(failed[1]).addr

\* C7: meeting an unrecognized opcode changes no cell and decodes nothing, the call
\* returns success, a jsr or branch that recursed into it goes on at its fall-through,
\* and a run with no other termination ends with the listing written.
C7_SoftTermination ==
    [][/\ unhandled' # unhandled
             => stmts' = stmts /\ decoded' = decoded /\ ret' = Some(Ok(0))
                /\ status' = "running"
       /\ (/\ status = "running" /\ stack # <<>> /\ ret # None /\ ret[1].ok
           /\ status' = "running")
             => /\ Len(stack') = Len(stack)
                /\ stack'[Len(stack)].offset = Top.offset + Top.saved.v
                /\ stack'[Len(stack)].wait = "run"
       /\ (pc' = "done" /\ unhandled' # <<>> /\ failed' = <<>> /\ status' # "panic")
             => status' = "ok" /\ out'.written]_vars

\* a finished run with its listing, in which a jsr or a branch recursed into an
\* unrecognized opcode and the instruction after it was decoded
C7_Witness ==
    /\ status = "ok"
    /\ out.written
    /\ unhandled # <<>>
    /\ \E i, j \in 1..Len(decoded) :
          LET c == Stmt(stmts, decoded[i][1]).asm_code
              target == IF c.instr.name = "JSR_ABS"
                        THEN addr_to_offset_fn(c.instr.v).offset
                        ELSE decoded[i][1] + 2 + c.instr.v
          IN  /\ c.t = "Instruction"
              /\ c.instr.name \in {"JSR_ABS", "BNE_REL"}
              /\ InRange(target)
              /\ StepKind(stmts, Frame(0, target, "")) = "other"
              /\ decoded[j][1] = decoded[i][1] + decoded[i][2]

\* the instructions of the listing whose operand is a zero-page or absolute address
OperandCells ==
    {o \in Instructions(stmts) :
        InstructionText(Stmt(stmts, o).asm_code.instr.name).mode
            \in {"zp", "zp_x", "abs", "abs_x", "abs_y"}}

OperandAddr(o) == Stmt(stmts, o).asm_code.instr.v

Mode(o) == InstructionText(Stmt(stmts, o).asm_code.instr.name).mode

\* the line of the listing that holds instruction o, and what follows its mnemonic
InstrLine(o) == out.cells[o][Len(out.cells[o])]
OperandText(o) == SubSeq(InstrLine(o), 9, Len(InstrLine(o)))

EndsWith(s, suffix) ==
    Len(s) >= Len(suffix) /\ SubSeq(s, Len(s) - Len(suffix) + 1, Len(s)) = suffix

\* the operand text without the index register
AddressText(o) ==
    IF EndsWith(OperandText(o), ",x") \/ EndsWith(OperandText(o), ",y")
    THEN SubSeq(OperandText(o), 1, Len(OperandText(o)) - 2)
    ELSE OperandText(o)

\* C8: in the listing two instructions with the same zero-page or absolute operand
\* address show the same text for it, whichever comes first, and an address bound before
\* serialization shows as its name.
C8_SameAddressSameText ==
    out.written =>
        /\ \A o1, o2 \in OperandCells :
              OperandAddr(o1) = OperandAddr(o2) => AddressText(o1) = AddressText(o2)
        /\ \A o \in OperandCells :
              OperandAddr(o) \in DOMAIN addr_to_variable
                  => AddressText(o) = addr_to_variable[OperandAddr(o)].name

\* a listing with two instructions on one address that had no name before serialization
C8_Witness ==
    /\ out.written
    /\ \E o1, o2 \in OperandCells :
          /\ o1 < o2
          /\ OperandAddr(o1) = OperandAddr(o2)
          /\ OperandAddr(o1) \notin DOMAIN addr_to_variable
          /\ Mode(o1) # Mode(o2)

\* the name synthesized for address a: by the first instruction of the listing on it
SynthName(a) ==
    IF Mode(SetMin({o \in OperandCells : OperandAddr(o) = a})) \in {"zp", "zp_x"}
    THEN "ZP_" \o fmt_02X(a)
    ELSE "ABS_" \o fmt_04X(a)

\* C9: rendering leaves the registry with the names it had, plus one name per operand
\* address that had none: ZP_xx where a zero-page operand met the address unbound,
\* ABS_xxxx where an absolute operand did; a bound address is never named again.
C9_SynthesizedNames ==
    out.written =>
        /\ DOMAIN out.reg = DOMAIN addr_to_variable \cup {OperandAddr(o) : o \in OperandCells}
        /\ \A a \in DOMAIN addr_to_variable : out.reg[a] = addr_to_variable[a]
        /\ \A a \in DOMAIN out.reg \ DOMAIN addr_to_variable : out.reg[a].name = SynthName(a)
        /\ Len(out.defines) = Cardinality(DOMAIN out.reg)

\* sta $0010 / sta $10 / lda $11: $0010 is named ABS_0010 and met again as $10, $11 is
\* named ZP_11
C9_Witness ==
    /\ out.written
    /\ \E o1, o2 \in OperandCells :
          /\ o1 < o2
          /\ Mode(o1) = "abs" /\ Mode(o2) = "zp"
          /\ OperandAddr(o1) = 16 /\ OperandAddr(o2) = 16
    /\ out.reg[16].name = "ABS_0010"
    /\ 17 \in DOMAIN out.reg
    /\ out.reg[17].name = "ZP_11"
    /\ \E i \in 1..Len(out.defines) :
          out.defines[i] = ".define ZP_11                     = $11"

\* C10: the operand text of every instruction of the listing follows its addressing
\* mode, its address bound or not: #$xx, a closing ,x or ,y for the indexed modes,
\* ($xx),y, and the label for a jump, a call and a branch.
C10_OperandFollowsMode ==
    out.written =>
        \A o \in Instructions(stmts) :
            LET i == Stmt(stmts, o).asm_code.instr
                t == OperandText(o)
            IN  CASE Mode(o) = "imm" -> t = "#$" \o fmt_02x(i.v)
                  [] Mode(o) = "zp_x" -> EndsWith(t, ",x")
                  [] Mode(o) = "abs_x" -> EndsWith(t, ",x")
                  [] Mode(o) = "abs_y" -> EndsWith(t, ",y")
                  [] Mode(o) = "ind_y" -> t = "($" \o fmt_02x(i.v) \o "),y"
                  [] Mode(o) = "label" -> t = i.label /\ SubSeq(t, 1, 6) = "prgrom"
                  [] OTHER -> TRUE

\* the number of lines written for the cells of S
RECURSIVE LinesOf(_)
LinesOf(S) ==
    IF S = {} THEN 0
    ELSE Len(out.cells[SetMin(S)]) + LinesOf(S \ {SetMin(S)})

\* C11: the listing begins with one .define line per registered variable by ascending
\* address; the lines of a cell follow the lines of every cell of a smaller offset; and
\* a cell's segment banner comes before its label line, which comes before its text.
C11_SerializeOrder ==
    out.written =>
        LET nd == Cardinality(DOMAIN out.reg)
        IN  /\ Len(out.lines) = nd + LinesOf(DOMAIN out.cells)
            /\ \A a \in DOMAIN out.reg :
                  out.lines[1 + Cardinality({b \in DOMAIN out.reg : b < a})]
                      = ".define " \o fmt_pad25(out.reg[a].name) \o " = "
                        \o VariableValue_fmt(out.reg[a].value)
            /\ \A o \in DOMAIN out.cells :
                  LET c == Stmt(stmts, o)
                      base == nd + LinesOf({p \in DOMAIN out.cells : p < o})
                      n == Len(out.cells[o])
                  IN  ~IsUsed(o) =>
                        /\ n = 1 + (IF c.segment # None THEN 1 ELSE 0)
                                 + (IF c.label # None THEN 1 ELSE 0)
                        /\ c.segment # None =>
                              EndsWith(out.lines[base + 1],
                                       ".segment \"" \o c.segment[1] \o "\"")
                        /\ c.label # None => out.lines[base + n - 1] = c.label[1] \o ":"
                        /\ out.lines[base + n]
                              = with_comment(to_write_string(c.asm_code, out.reg).text,
                                             c.comment)

\* a listing with a synthesized and the pre-bound names, in which the cell a bank's
\* segment begins at carries a label
C11_Witness ==
    /\ out.written
    /\ DOMAIN out.reg # DOMAIN addr_to_variable
    /\ \E o \in DOMAIN out.cells :
          /\ Stmt(stmts, o).segment # None
          /\ Stmt(stmts, o).label # None
          /\ Len(out.cells[o]) = 3

\* the cells the run has written that are no tombstones
Rendered == {o \in DOMAIN out.cells : ~IsUsed(o)}

\* C12: a tombstone renders as the empty string and gets no line, blank or not: the
\* lines of the listing that are no .define, banner or label line are as many as the
\* cells that are no tombstones; lda #$05 / rts gives the two lines of its two
\* instructions.
C12_TombstonesRenderNothing ==
    out.written =>
        /\ to_write_string(Used, out.reg).text = ""
        /\ \A o \in DOMAIN out.cells : IsUsed(o) => out.cells[o] = <<>>
        /\ \A i \in 1..Len(out.lines) : out.lines[i] # ""
        /\ Len(out.lines) - Cardinality(DOMAIN out.reg)
              - Cardinality({o \in Rendered : Stmt(stmts, o).segment # None})
              - Cardinality({o \in Rendered : Stmt(stmts, o).label # None})
           = Cardinality(Rendered)
        /\ data.code = <<169, 5, 96>> =>
              /\ out.cells[CodeStart] = <<"prgrom0_irq:", "    lda #$05">>
              /\ out.cells[CodeStart + 1] = <<>>
              /\ out.cells[CodeStart + 2] = <<"    rts">>

\* the listing of lda #$05 / rts
C12_Witness ==
    /\ out.written
    /\ data.code = <<169, 5, 96>>
    /\ IsUsed(CodeStart + 1)
    /\ is_instruction(stmts, CodeStart)

\* the file offsets of PRG-ROM bank b
BankRange(b) ==
    (NES_HEADER_LENGTH + b * NES_PRG_ROM_PAGE_LENGTH)
        ..(NES_HEADER_LENGTH + (b + 1) * NES_PRG_ROM_PAGE_LENGTH - 1)

\* the file offset of CPU address a in bank b, the bank being seen at $8000 and at $c000
BankCell(b, a) ==
    NES_HEADER_LENGTH + b * NES_PRG_ROM_PAGE_LENGTH
        + ((a - NES_PRG_ROM_START_ADDRESS) % NES_PRG_ROM_PAGE_LENGTH)

\* C13: the entries of a bank are decoded inside that bank's file range, and where two
\* processed banks hold the same vector address, the cell of that entry in each of
\* them carries a label of its own bank (prgrom<b>_ and the name of one of the bank's
\* vectors with that address).
C13_BanksDoNotCollide ==
    [][/\ \A i \in 1..3 :
             (pc = "call_" \o EntryNames[i] /\ pc' = "run_" \o EntryNames[i])
                 => stack'[1].offset \in BankRange(prg_rom_idx)
       /\ \A b, j \in 0..(prg_rom_idx' - 1), i \in 1..3 :
             (/\ status' # "panic"
              /\ b # j
              /\ \E k \in 1..3 : data.vecs[j + 1][k] = data.vecs[b + 1][i])
             => \E k \in 1..3 :
                    /\ data.vecs[b + 1][k] = data.vecs[b + 1][i]
                    /\ Stmt(stmts', BankCell(b, data.vecs[b + 1][i])).label
                           = Some("prgrom" \o fmt_dec(b) \o "_" \o EntryNames[k])]_vars

\* the 16-bit value the file holds, low byte first, for vector i of bank b
VectorInFile(b, i) ==
    Data(16 + 16384 * (b + 1) - 6 + 2 * (i - 1))
        + 256 * Data(16 + 16384 * (b + 1) - 6 + 2 * (i - 1) + 1)

\* C14: the entry addresses of bank b are the little-endian values at file offsets
\* 16+16384*(b+1)-6, -4 and -2, and the traversal is started on them one after the
\* other: NMI, then RESET, then IRQ, each once.
C14_VectorsOfBank ==
    [][/\ \A i \in 1..3 :
             /\ (pc = "vec_" \o EntryNames[i] /\ pc' \notin {pc, "done"})
                    => vectors'[i] = VectorInFile(prg_rom_idx, i)
             /\ (pc' = "run_" \o EntryNames[i] /\ pc' # pc)
                    => /\ pc = "call_" \o EntryNames[i]
                       /\ stack'[1].addr = VectorInFile(prg_rom_idx, i)
                       /\ Len(stack') = 1
       /\ (pc' = "call_nmi" /\ pc' # pc) => pc = "vec_irq"
       /\ (pc' = "call_reset" /\ pc' # pc) => pc = "run_nmi"
       /\ (pc' = "call_irq" /\ pc' # pc) => pc = "run_reset"
       /\ (pc' = "segment" /\ pc' # pc) => pc = "run_irq"
       /\ pc = "segment" => prg_rom_idx' = prg_rom_idx + 1]_vars

\* a run over two banks whose second bank holds three different vectors
C14_Witness ==
    /\ pc = "done"
    /\ status = "ok"
    /\ prg_rom_idx = 2
    /\ vectors = <<49152, 49155, 49158>>

\* the input does not begin with 'N', 'E', 'S', $1a
BadMagic == DataLen < 4 \/ \E i \in 1..4 : Data(i - 1) # Magic[i]

\* C15: a run on an input without the magic, shorter inputs included, ends with an
\* error value, having reclassified and decoded nothing and written no listing.
C15_BadMagicIsError ==
    (BadMagic /\ pc # "start") =>
        /\ pc = "done"
        /\ status = "err"
        /\ error.kind = "ParseError"
        /\ stmts = Code_new
        /\ decoded = <<>>
        /\ ~out.written

\* the input is ScenarioD with RESET at its first byte, PRG-ROM count 1, CHR-ROM count 0
IsScenarioD ==
    /\ ~BadMagic
    /\ data.prg = 1
    /\ data.chr = 0
    /\ data.code = ScenarioD
    /\ data.vecs[1][2] = CodeAddr(Len(ScenarioD), 0)

\* C16: a run on ScenarioD succeeds, and its listing holds at the RESET entry the lines
\* of lda #$01, of sta with the name of $2000, and of rts, and nothing for the operand
\* cells between them.
C16_ScenarioD ==
    (IsScenarioD /\ pc = "done") =>
        /\ status = "ok"
        /\ out.written
        /\ out.cells[CodeStart][Len(out.cells[CodeStart])] = "    lda #$01"
        /\ out.cells[CodeStart + 1] = <<>>
        /\ out.cells[CodeStart + 2] = <<"    sta PPU_CTRL">>
        /\ out.cells[CodeStart + 3] = <<>>
        /\ out.cells[CodeStart + 4] = <<>>
        /\ out.cells[CodeStart + 5] = <<"    rts">>

(***************************************************************************)
(* The documented 6502 instruction of each opcode byte the decode table    *)
(* recognizes: its mnemonic, the number of operand bytes of its addressing *)
(* mode, and how control continues after it ("plain": with the next        *)
(* instruction; "stop": nowhere; "jsr", "jmp", "branch": at the target).   *)
(***************************************************************************)
Standard6502 ==
    2 :> [mnemonic |-> "jam", operands |-> 0, category |-> "stop"] @@
    5 :> [mnemonic |-> "ora", operands |-> 1, category |-> "plain"] @@
    6 :> [mnemonic |-> "asl", operands |-> 1, category |-> "plain"] @@
    8 :> [mnemonic |-> "php", operands |-> 0, category |-> "plain"] @@
    9 :> [mnemonic |-> "ora", operands |-> 1, category |-> "plain"] @@
    10 :> [mnemonic |-> "asl", operands |-> 0, category |-> "plain"] @@
    16 :> [mnemonic |-> "bpl", operands |-> 1, category |-> "branch"] @@
    18 :> [mnemonic |-> "jam", operands |-> 0, category |-> "stop"] @@
    24 :> [mnemonic |-> "clc", operands |-> 0, category |-> "plain"] @@
    32 :> [mnemonic |-> "jsr", operands |-> 2, category |-> "jsr"] @@
    34 :> [mnemonic |-> "jam", operands |-> 0, category |-> "stop"] @@
    36 :> [mnemonic |-> "bit", operands |-> 1, category |-> "plain"] @@
    37 :> [mnemonic |-> "and", operands |-> 1, category |-> "plain"] @@
    40 :> [mnemonic |-> "plp", operands |-> 0, category |-> "plain"] @@
    41 :> [mnemonic |-> "and", operands |-> 1, category |-> "plain"] @@
    42 :> [mnemonic |-> "rol", operands |-> 0, category |-> "plain"] @@
    48 :> [mnemonic |-> "bmi", operands |-> 1, category |-> "branch"] @@
    50 :> [mnemonic |-> "jam", operands |-> 0, category |-> "stop"] @@
    53 :> [mnemonic |-> "and", operands |-> 1, category |-> "plain"] @@
    56 :> [mnemonic |-> "sec", operands |-> 0, category |-> "plain"] @@
    64 :> [mnemonic |-> "rti", operands |-> 0, category |-> "stop"] @@
    66 :> [mnemonic |-> "jam", operands |-> 0, category |-> "stop"] @@
    69 :> [mnemonic |-> "eor", operands |-> 1, category |-> "plain"] @@
    70 :> [mnemonic |-> "lsr", operands |-> 1, category |-> "plain"] @@
    72 :> [mnemonic |-> "pha", operands |-> 0, category |-> "plain"] @@
    73 :> [mnemonic |-> "eor", operands |-> 1, category |-> "plain"] @@
    74 :> [mnemonic |-> "lsr", operands |-> 0, category |-> "plain"] @@
    76 :> [mnemonic |-> "jmp", operands |-> 2, category |-> "jmp"] @@
    77 :> [mnemonic |-> "eor", operands |-> 2, category |-> "plain"] @@
    82 :> [mnemonic |-> "jam", operands |-> 0, category |-> "stop"] @@
    96 :> [mnemonic |-> "rts", operands |-> 0, category |-> "stop"] @@
    98 :> [mnemonic |-> "jam", operands |-> 0, category |-> "stop"] @@
    101 :> [mnemonic |-> "adc", operands |-> 1, category |-> "plain"] @@
    102 :> [mnemonic |-> "ror", operands |-> 1, category |-> "plain"] @@
    104 :> [mnemonic |-> "pla", operands |-> 0, category |-> "plain"] @@
    105 :> [mnemonic |-> "adc", operands |-> 1, category |-> "plain"] @@
    106 :> [mnemonic |-> "ror", operands |-> 0, category |-> "plain"] @@
    109 :> [mnemonic |-> "adc", operands |-> 2, category |-> "plain"] @@
    114 :> [mnemonic |-> "jam", operands |-> 0, category |-> "stop"] @@
    120 :> [mnemonic |-> "sei", operands |-> 0, category |-> "plain"] @@
    125 :> [mnemonic |-> "adc", operands |-> 2, category |-> "plain"] @@
    132 :> [mnemonic |-> "sty", operands |-> 1, category |-> "plain"] @@
    133 :> [mnemonic |-> "sta", operands |-> 1, category |-> "plain"] @@
    134 :> [mnemonic |-> "stx", operands |-> 1, category |-> "plain"] @@
    136 :> [mnemonic |-> "dey", operands |-> 0, category |-> "plain"] @@
    138 :> [mnemonic |-> "txa", operands |-> 0, category |-> "plain"] @@
    140 :> [mnemonic |-> "sty", operands |-> 2, category |-> "plain"] @@
    141 :> [mnemonic |-> "sta", operands |-> 2, category |-> "plain"] @@
    142 :> [mnemonic |-> "stx", operands |-> 2, category |-> "plain"] @@
    144 :> [mnemonic |-> "bcc", operands |-> 1, category |-> "branch"] @@
    145 :> [mnemonic |-> "sta", operands |-> 1, category |-> "plain"] @@
    146 :> [mnemonic |-> "jam", operands |-> 0, category |-> "stop"] @@
    148 :> [mnemonic |-> "sty", operands |-> 1, category |-> "plain"] @@
    149 :> [mnemonic |-> "sta", operands |-> 1, category |-> "plain"] @@
    152 :> [mnemonic |-> "tya", operands |-> 0, category |-> "plain"] @@
    153 :> [mnemonic |-> "sta", operands |-> 2, category |-> "plain"] @@
    154 :> [mnemonic |-> "txs", operands |-> 0, category |-> "plain"] @@
    157 :> [mnemonic |-> "sta", operands |-> 2, category |-> "plain"] @@
    160 :> [mnemonic |-> "ldy", operands |-> 1, category |-> "plain"] @@
    162 :> [mnemonic |-> "ldx", operands |-> 1, category |-> "plain"] @@
    164 :> [mnemonic |-> "ldy", operands |-> 1, category |-> "plain"] @@
    165 :> [mnemonic |-> "lda", operands |-> 1, category |-> "plain"] @@
    166 :> [mnemonic |-> "ldx", operands |-> 1, category |-> "plain"] @@
    168 :> [mnemonic |-> "tay", operands |-> 0, category |-> "plain"] @@
    169 :> [mnemonic |-> "lda", operands |-> 1, category |-> "plain"] @@
    170 :> [mnemonic |-> "tax", operands |-> 0, category |-> "plain"] @@
    172 :> [mnemonic |-> "ldy", operands |-> 2, category |-> "plain"] @@
    173 :> [mnemonic |-> "lda", operands |-> 2, category |-> "plain"] @@
    174 :> [mnemonic |-> "ldx", operands |-> 2, category |-> "plain"] @@
    176 :> [mnemonic |-> "bcs", operands |-> 1, category |-> "branch"] @@
    177 :> [mnemonic |-> "lda", operands |-> 1, category |-> "plain"] @@
    178 :> [mnemonic |-> "jam", operands |-> 0, category |-> "stop"] @@
    180 :> [mnemonic |-> "ldy", operands |-> 1, category |-> "plain"] @@
    181 :> [mnemonic |-> "lda", operands |-> 1, category |-> "plain"] @@
    185 :> [mnemonic |-> "lda", operands |-> 2, category |-> "plain"] @@
    188 :> [mnemonic |-> "ldy", operands |-> 2, category |-> "plain"] @@
    189 :> [mnemonic |-> "lda", operands |-> 2, category |-> "plain"] @@
    190 :> [mnemonic |-> "ldx", operands |-> 2, category |-> "plain"] @@
    192 :> [mnemonic |-> "cpy", operands |-> 1, category |-> "plain"] @@
    196 :> [mnemonic |-> "cpy", operands |-> 1, category |-> "plain"] @@
    197 :> [mnemonic |-> "cmp", operands |-> 1, category |-> "plain"] @@
    198 :> [mnemonic |-> "dec", operands |-> 1, category |-> "plain"] @@
    200 :> [mnemonic |-> "iny", operands |-> 0, category |-> "plain"] @@
    201 :> [mnemonic |-> "cmp", operands |-> 1, category |-> "plain"] @@
    202 :> [mnemonic |-> "dex", operands |-> 0, category |-> "plain"] @@
    205 :> [mnemonic |-> "cmp", operands |-> 2, category |-> "plain"] @@
    206 :> [mnemonic |-> "dec", operands |-> 2, category |-> "plain"] @@
    208 :> [mnemonic |-> "bne", operands |-> 1, category |-> "branch"] @@
    210 :> [mnemonic |-> "jam", operands |-> 0, category |-> "stop"] @@
    213 :> [mnemonic |-> "cmp", operands |-> 1, category |-> "plain"] @@
    214 :> [mnemonic |-> "dec", operands |-> 1, category |-> "plain"] @@
    216 :> [mnemonic |-> "cld", operands |-> 0, category |-> "plain"] @@
    217 :> [mnemonic |-> "cmp", operands |-> 2, category |-> "plain"] @@
    221 :> [mnemonic |-> "cmp", operands |-> 2, category |-> "plain"] @@
    222 :> [mnemonic |-> "dec", operands |-> 2, category |-> "plain"] @@
    224 :> [mnemonic |-> "cpx", operands |-> 1, category |-> "plain"] @@
    228 :> [mnemonic |-> "cpx", operands |-> 1, category |-> "plain"] @@
    229 :> [mnemonic |-> "sbc", operands |-> 1, category |-> "plain"] @@
    230 :> [mnemonic |-> "inc", operands |-> 1, category |-> "plain"] @@
    232 :> [mnemonic |-> "inx", operands |-> 0, category |-> "plain"] @@
    233 :> [mnemonic |-> "sbc", operands |-> 1, category |-> "plain"] @@
    238 :> [mnemonic |-> "inc", operands |-> 2, category |-> "plain"] @@
    240 :> [mnemonic |-> "beq", operands |-> 1, category |-> "branch"] @@
    242 :> [mnemonic |-> "jam", operands |-> 0, category |-> "stop"] @@
    246 :> [mnemonic |-> "inc", operands |-> 1, category |-> "plain"] @@
    253 :> [mnemonic |-> "sbc", operands |-> 2, category |-> "plain"] @@
    254 :> [mnemonic |-> "inc", operands |-> 2, category |-> "plain"]

\* C17: every decoded instruction has the operand count, the control-flow category and
\* the rendered mnemonic that the standard 6502 instruction set gives its opcode byte.
C17_StandardOpcodes ==
    \A i \in DOMAIN decoded :
        LET o == decoded[i][1]
            op == Data(o)
            c == Stmt(stmts, o).asm_code
        IN  /\ op \in DOMAIN Standard6502
            /\ decoded[i][2] = 1 + Standard6502[op].operands
            /\ OpcodeArm(op).kind = Standard6502[op].category
            /\ c.t = "Instruction" =>
                   /\ InstructionText(c.instr.name).mnemonic = Standard6502[op].mnemonic
                   /\ (out.written /\ o \in DOMAIN out.cells) =>
                          SubSeq(InstrLine(o), 1, 4 + Len(Standard6502[op].mnemonic))
                              = "    " \o Standard6502[op].mnemonic

\* self.stmts.len(): the cells Code::new pushed, and the cells beyond them if any
stmts_len(s) ==
    IF \A o \in DOMAIN s.over : o < DataLen THEN DataLen
    ELSE 1 + (CHOOSE x \in DOMAIN s.over : \A y \in DOMAIN s.over : y <= x)

\* every binding of reg0 is in reg1, with its name and value
Keeps(reg0, reg1) ==
    \A a \in DOMAIN reg0 : a \in DOMAIN reg1 /\ reg1[a] = reg0[a]

\* C18: the store holds one cell per input byte in every reachable state, and no step
\* of decoding or serialization removes or renames a binding of the registry: the
\* store's registry keeps its bindings, and the registry serialization renders with
\* keeps them too.
C18_StoreSizeRegistryGrows ==
    /\ stmts_len(stmts) = DataLen
    /\ [][/\ stmts_len(stmts') = DataLen
          /\ Keeps(addr_to_variable, addr_to_variable')
          /\ out'.written => Keeps(addr_to_variable, out'.reg)]_vars

\* a listing is written after cells were taken and replaced, and serialization added
\* a binding to the ones the registry had
C18_Witness ==
    /\ out.written
    /\ \E o \in DOMAIN stmts.over : IsUsed(o)
    /\ Instructions(stmts) # {}
    /\ addr_to_variable # <<>>
    /\ DOMAIN out.reg # DOMAIN addr_to_variable

(***************************************************************************)
(* What the texts of LinkerParts mean.                                     *)
(***************************************************************************)
\* the values of the menu that are $-prefixed hexadecimal, and the numbers they denote
U32Of == ("$0002" :> 2) @@ ("$001A" :> 26) @@ ("$1a" :> 26) @@ ("$100" :> 256)

BoolOf == ("yes" :> TRUE) @@ ("no" :> FALSE)

\* the value of the last arg of p with this key
LastText(p, key) ==
    LET given == {i \in DOMAIN p.args : p.args[i][1] = key}
    IN  IF given = {} THEN None
        ELSE Some(p.args[CHOOSE i \in given : \A j \in given : j <= i][2])

\* no value is empty, and the values of start, size, define and fill can be read
WellFormed(p) ==
    /\ \A i \in DOMAIN p.args : p.args[i][2] # ""
    /\ \A key \in {"start", "size"} :
          LastText(p, key) # None => LastText(p, key)[1] \in DOMAIN U32Of
    /\ \A key \in {"define", "fill"} :
          LastText(p, key) # None => LastText(p, key)[1] \in DOMAIN BoolOf

\* f applied to the value of an optional text
MapOption(opt, f) == IF opt = None THEN None ELSE Some(f[opt[1]])

ExpectedSegment(p) ==
    [file |-> LastText(p, "file"),
     start |-> MapOption(LastText(p, "start"), U32Of),
     size |-> MapOption(LastText(p, "size"), U32Of),
     fill |-> MapOption(LastText(p, "fill"), BoolOf),
     define |-> MapOption(LastText(p, "define"), BoolOf),
     segment_type |-> LastText(p, "type")]

\* C19: read_linker_from_string applied to a well-formed MEMORY block leaves nothing of
\* the input and returns a LinkerFile whose memory is the map from the segment's name
\* to its MemorySegment, with symbols, segments and features absent.
C19_ReadLinkerFromString ==
    (linker.pc = "read_linker_from_string" /\ WellFormed(linker.parts)) =>
        /\ linker.result.ok
        /\ linker.result.rest = ""
        /\ linker.result.v.memory
             = Some(linker.parts.name :> ExpectedSegment(linker.parts))
        /\ linker.result.v.symbols = None
        /\ linker.result.v.segments = None
        /\ linker.result.v.features = None

\* C20: memory_segment applied to `NAME: key = value, ... ;` and what follows leaves
\* what follows the ';' and returns the name with a MemorySegment whose file and type
\* are the texts given, whose start and size are the numbers of the $-prefixed
\* hexadecimal texts, whose define and fill are the booleans of yes and no, and whose
\* other fields are absent; with an empty value it fails.  arg applied to
\* `key = value` and its ',' or ';' returns the key and the value and leaves the ',' or
\* ';', and fails when the value is empty.
C20_MemorySegment ==
    /\ linker.pc = "memory_segment" =>
          IF WellFormed(linker.parts)
          THEN /\ linker.result.ok
               /\ linker.result.rest = linker.parts.tail
               /\ linker.result.v = <<linker.parts.name, ExpectedSegment(linker.parts)>>
          ELSE ~linker.result.ok
    /\ linker.pc = "arg" =>
          IF linker.parts.args[1][2] = "" THEN ~linker.result.ok
          ELSE /\ linker.result.ok
               /\ linker.result.v = linker.parts.args[1]
               /\ linker.result.rest = (IF Len(linker.parts.args) = 1 THEN ";" ELSE ",")

\* memory_segment has parsed a segment of two args, a start among them, that something
\* follows
C20_Witness ==
    /\ linker.pc = "memory_segment"
    /\ linker.result.ok
    /\ Len(linker.parts.args) = 2
    /\ linker.result.rest # ""
    /\ linker.result.v[2].start # None
    /\ linker.result.v[2].define = None

\* the last decode of the run so far: its offset and the instruction it installed
LastDecoded == decoded[Len(decoded)][1]
LastInstr == Stmt(stmts, LastDecoded).asm_code.instr

\* the step decodes a jump, a call or a conditional branch and the run goes on
DecodesTransfer ==
    /\ Len(decoded') = Len(decoded) + 1
    /\ InstructionText(LastInstr'.name).mode = "label"
    /\ status' = "running"
    /\ stack' # <<>>

\* C21: every traversal start attaches its label: when an entry is called, the cell at
\* the mapped offset of the vector carries prefix_name, and when a jump, a call or a
\* conditional branch has been decoded, the traversal goes on at the mapped offset of
\* its target and the cell there carries the label the instruction renders.
C21_TargetsAreLabelled ==
    [][/\ \A i \in 1..3 :
             (pc = "call_" \o EntryNames[i] /\ pc' = "run_" \o EntryNames[i])
                 => Stmt(stmts', stack'[1].offset).label
                        = Some("prgrom" \o fmt_dec(prg_rom_idx) \o "_" \o EntryNames[i])
       /\ DecodesTransfer
             => /\ InRange(stack'[Len(stack')].offset)
                /\ Stmt(stmts', stack'[Len(stack')].offset).label
                       = Some(LastInstr'.label)]_vars

\* the instructions after which no path goes on at the next byte
NoFallThrough == {"JMP_ABS", "RTS", "RTI", "JAM"}

\* C22: instructions that do not fall through end their path: the step that decodes an
\* absolute jump, a return or a jam leaves the cells behind the instruction as they
\* were, and the path either ends (its activation returns Ok(0)) or, for a jump, goes
\* on at the mapped offset of the jump's target; it does not go on at the next byte.
C22_NoFallThrough ==
    [][(Len(decoded') = Len(decoded) + 1 /\ LastInstr'.name \in NoFallThrough)
          => LET o == LastDecoded'
                 size == decoded'[Len(decoded')][2]
             IN  /\ InRange(o + size) => Stmt(stmts', o + size) = Stmt(stmts, o + size)
                 /\ \/ status' = "panic"
                    \/ /\ LastInstr'.name # "JMP_ABS"
                       /\ stack' = Pop
                       /\ ret' = Some(Ok(0))
                    \/ /\ LastInstr'.name = "JMP_ABS"
                       /\ Len(stack') = Len(stack)
                       /\ stack'[Len(stack')].addr = LastInstr'.v
                       /\ stack'[Len(stack')].offset
                              = addr_to_offset_fn(LastInstr'.v).offset]_vars

\* a run has ended without error in which an absolute jump was decoded inside a called
\* subroutine and the byte behind the jump is still data
C22_Witness ==
    /\ pc = "done"
    /\ status = "ok"
    /\ \E i, j \in 1..Len(decoded) :
          /\ Stmt(stmts, decoded[i][1]).asm_code.instr.name = "JMP_ABS"
          /\ Stmt(stmts, decoded[j][1]).asm_code.instr.name = "JSR_ABS"
          /\ InRange(decoded[i][1] + 3)
          /\ Stmt(stmts, decoded[i][1] + 3).asm_code.t \notin {"Instruction", "Used"}

\* the frame of the path at offset o and address a after its instruction of n operand
\* bytes
FallsThrough(f, n) ==
    [f EXCEPT !.offset = f.offset + 1 + n, !.addr = f.addr + 1 + n, !.wait = "run"]

\* C23: instructions that fall through continue their path: the step that decodes a
\* non-branching instruction with n operand bytes at offset o and address a leaves the
\* same activation at offset o+1+n and address a+1+n, and so does the return of the
\* recursion of a subroutine call (n = 2) or a conditional branch (n = 1) that ended
\* without error.
C23_FallThrough ==
    [][/\ (/\ Len(decoded') = Len(decoded) + 1
           /\ LastInstr'.name \notin NoFallThrough
           /\ InstructionText(LastInstr'.name).mode # "label")
          => stack' = [stack EXCEPT ![Len(stack)] =
                           FallsThrough(Top, decoded'[Len(decoded')][2] - 1)]
       /\ (/\ status = "running" /\ stack # <<>> /\ ret # None /\ ret[1].ok)
          => stack' = [stack EXCEPT ![Len(stack)] =
                           FallsThrough(Top, IF Top.wait = "jsr" THEN 2 ELSE 1)]]_vars

\* a path stands right behind a subroutine call whose recursion has returned, having
\* decoded a non-branching instruction before
C23_Witness ==
    /\ status = "running"
    /\ stack # <<>>
    /\ ret = None
    /\ Top.wait = "run"
    /\ \E i, j \in 1..Len(decoded) :
          /\ i < j
          /\ InstructionText(Stmt(stmts, decoded[i][1]).asm_code.instr.name).mode = "zp"
          /\ Stmt(stmts, decoded[j][1]).asm_code.instr.name = "JSR_ABS"
          /\ Top.offset = decoded[j][1] + 3
          /\ decoded[j][1] = decoded[i][1] + 2

\* C24: for every conditional branch at address a whose displacement byte reads as the
\* signed d, the step decodes the branch with the label of the address a + 2 + d taken
\* as a 16-bit address, and the recursion starts at that address.
C24_BranchTarget ==
    [][(/\ InLoop
        /\ StepKind(stmts, Top) = "branch"
        /\ InRange(Top.offset + 1)
        /\ get_i8(stmts, Top.offset + 1).ok)
          => LET d == get_i8(stmts, Top.offset + 1).v
                 target == (Top.addr + 2 + d + U16) % U16
             IN  /\ d \in -128..127
                 /\ decoded' = Append(decoded, <<Top.offset, 2>>)
                 /\ LastInstr'.label = TargetLabel(Top.label_prefix, target)
                 /\ status' = "running" => stack'[Len(stack')].addr = target]_vars

(***************************************************************************)
(* Disassembler::disassemble as the recursive function it is in the source *)
(* (disassembler.rs 14-687, branch_relative 690-720): its value is the     *)
(* Store it leaves, the Result it returns and the offsets it decoded, in   *)
(* order. The actions above run the same code on the explicit stack of     *)
(* activations.                                                            *)
(***************************************************************************)
Rec(k, s, r, log) == [k |-> k, s |-> s, r |-> r, decoded |-> log]

RECURSIVE disassemble(_, _, _, _, _)
RECURSIVE disassemble_loop(_, _, _)
RECURSIVE disassemble_result(_, _, _, _, _)

\* lines 662-687 and the next pass of the loop
disassemble_result(s, f, result, set_addr, log) ==
    LET h == handle_result(f, result, set_addr)
    IN  CASE h.k = "panic" -> Rec("panic", s, Ok(0), log)
          [] h.k = "continue" -> disassemble_loop(s, h.frame, log)
          [] h.k = "return" -> Rec("ok", s, h.r, log)

\* lines 89-109: the JSR arm from its recursive call on
disassemble_jsr(r, f, addr, log) ==
    LET child == disassemble(r.s, addr, fmt_04x(addr), f.label_prefix,
                             Append(log, <<f.offset, 3>>))
    IN  IF child.k = "panic" \/ ~child.r.ok THEN child
        ELSE disassemble_result(child.s, f, r.res, None, child.decoded)

\* lines 690-720: branch_relative
branch_relative(s, f, name, log) ==
    IF ~InRange(f.offset + 1) THEN Rec("panic", s, Ok(0), log)
    ELSE LET rel == get_i8(s, f.offset + 1)
             sum == (f.addr + rel.v + U16) % U16
             new_addr == (sum + 2) % U16
             r == replace_with_instr(s, f.offset, 1,
                     FixedClosure(Instr(name, rel.v,
                                        TargetLabel(f.label_prefix, new_addr))))
             child == disassemble(r.s, new_addr, fmt_04x(new_addr), f.label_prefix,
                                  Append(log, <<f.offset, 2>>))
         IN  IF ~rel.ok THEN disassemble_result(s, f, rel, None, log)
             ELSE IF sum + 2 >= U16 /\ data.overflow_checks
             THEN Rec("panic", s, Ok(0), log)
             ELSE IF child.k = "panic" THEN child
             ELSE disassemble_result(child.s, f, IF child.r.ok THEN r.res ELSE child.r,
                                     None, child.decoded)

\* lines 27-660: one pass of the loop at the activation's offset
disassemble_loop(s, f, log) ==
    LET kind == StepKind(s, f)
        arm == OpcodeArm(get_u8(s, f.offset).v)
        p == PeekTarget(s, f.offset)
        r == replace_with_instr(s, f.offset, arm.args_len,
                 IF kind \in {"jmp", "jsr"}
                 THEN FixedClosure(Instr(arm.name, p.addr,
                                         TargetLabel(f.label_prefix, p.addr)))
                 ELSE ArmClosure(arm))
    IN  CASE kind = "panic" -> Rec("panic", s, Ok(0), log)
          [] kind \in {"merge", "other"} -> Rec("ok", s, Ok(0), log)
          [] kind = "badop" -> Rec("ok", s, get_u8(s, f.offset), log)
          [] kind = "stop" ->
               disassemble_result(r.s, f, Ok(0), None, Append(log, <<f.offset, 1>>))
          [] kind = "plain" ->
               IF f.offset + arm.args_len >= DataLen THEN Rec("panic", s, Ok(0), log)
               ELSE disassemble_result(r.s, f, r.res, None,
                        IF r.res.ok THEN Append(log, <<f.offset, r.res.v>>) ELSE log)
          [] kind = "branch" -> branch_relative(s, f, arm.name, log)
          [] kind \in {"jmp", "jsr"} ->
               CASE p.k = "panic" -> Rec("panic", s, Ok(0), log)
                 [] p.k = "err" -> Rec("ok", s, p.r, log)
                 [] p.k = "ok" ->
                      IF kind = "jmp"
                      THEN disassemble_result(r.s, f, Ok(0), Some(p.addr),
                                              Append(log, <<f.offset, 3>>))
                      ELSE disassemble_jsr(r, f, p.addr, log)

\* lines 14-25, then the loop
disassemble(s, addr, name, label_prefix, log) ==
    LET e == Enter(s, addr, name, label_prefix)
    IN  IF e.panic THEN Rec("panic", s, Ok(0), log)
        ELSE disassemble_loop(e.s, e.frame, log)

\* the Store in which the first entry point of the first bank is disassembled
StoreAtFirstCall ==
    LET vector(i) == NES_HEADER_LENGTH + NES_PRG_ROM_PAGE_LENGTH - 2 * (4 - i)
        chr == parse_chr_rom(parse_header(Code_new).s).s
        nmi == decode_vector(chr, vector(1), VectorNames[1]).s
        reset == decode_vector(nmi, vector(2), VectorNames[2]).s
    IN  decode_vector(reset, vector(3), VectorNames[3]).s

\* the first bank's entry points up to the i-th, disassembled by the recursive function
RECURSIVE Traversal(_)
Traversal(i) ==
    LET before == IF i = 1 THEN Rec("ok", StoreAtFirstCall, Ok(0), <<>>)
                  ELSE Traversal(i - 1)
    IN  disassemble(before.s, vectors[i], EntryNames[i], "prgrom0", before.decoded)

\* the offsets a path can reach next from the intact instruction of the i-th decode: the
\* byte behind it, unless it does not fall through, and the mapped offset of the target
\* address its label names
Successors(i) ==
    LET o == decoded[i][1]
        instr == Stmt(stmts, o).asm_code.instr
        target == from_str_radix(SubSeq(instr.label, Len(instr.label) - 3,
                                        Len(instr.label)))[1]
    IN  (IF instr.name \in NoFallThrough THEN {} ELSE {o + decoded[i][2]})
        \cup (IF InstructionText(instr.name).mode = "label"
              THEN {addr_to_offset_fn(target).offset} ELSE {})

\* no path has anything left to decode at offset o: it holds an instruction, or an
\* opcode of the `_` arm
Settled(o) ==
    /\ InRange(o)
    /\ \/ is_instruction(stmts, o)
       \/ /\ get_u8(stmts, o).ok
          /\ OpcodeArm(get_u8(stmts, o).v).kind = "other"

\* C25: the traversal is depth-first, and the recursive function and the run on an
\* explicit LIFO stack of activations agree. When the recursion of a subroutine call or
\* a conditional branch has returned without error and its caller is about to go on at
\* the fall-through successor, the target and every offset reachable from the
\* instructions decoded since the call are settled; and when an entry point of the
\* first bank has been disassembled on the stack, the Store, the returned Result and
\* the order of the decoded offsets are those the recursive function computes.
C25_DepthFirst ==
    /\ (status = "running" /\ stack # <<>> /\ ret # None /\ ret[1].ok)
          => \A k \in 1..Len(decoded) :
                decoded[k][1] = Top.offset
                   => \A i \in k..Len(decoded) :
                         is_instruction(stmts, decoded[i][1])
                            => \A o \in Successors(i) :
                                  (i = k /\ o = Top.offset + decoded[k][2]) \/ Settled(o)
    /\ \A i \in 1..3 :
          (/\ pc = "run_" \o EntryNames[i]
           /\ prg_rom_idx = 0
           /\ status = "running"
           /\ stack = <<>>
           /\ ret # None)
             => /\ Traversal(i).k = "ok"
                /\ Traversal(i).s = stmts
                /\ Traversal(i).r = ret[1]
                /\ Traversal(i).decoded = decoded

\* the last entry point has returned from a run in which a call or branch was decoded,
\* then the instruction at its target, which is not its fall-through successor, and the
\* fall-through successor only after that
C25_Witness ==
    /\ pc = "run_irq"
    /\ stack = <<>>
    /\ ret # None
    /\ ret[1].ok
    /\ \E k, j \in 1..Len(decoded) :
          /\ k + 1 < j
          /\ is_instruction(stmts, decoded[k][1])
          /\ InstructionText(Stmt(stmts, decoded[k][1]).asm_code.instr.name).mode = "label"
          /\ Stmt(stmts, decoded[k][1]).asm_code.instr.name # "JMP_ABS"
          /\ decoded[k + 1][1] \in Successors(k)
          /\ decoded[k + 1][1] # decoded[k][1] + decoded[k][2]
          /\ decoded[j][1] = decoded[k][1] + decoded[k][2]

\* the address named by the label of the instruction of the i-th decode
LabelAddr(i) ==
    LET label == Stmt(stmts, decoded[i][1]).asm_code.instr.label
    IN  from_str_radix(SubSeq(label, Len(label) - 3, Len(label)))[1]

\* C26: in every run that completes without error, the label text of every jump, call
\* and branch instruction of the Store is the label of the cell at the mapped offset of
\* its target, and that cell is no tombstone.
C26_LabelsResolve ==
    (pc = "done" /\ status = "ok")
       => \A i \in 1..Len(decoded) :
             (/\ is_instruction(stmts, decoded[i][1])
              /\ InstructionText(Stmt(stmts, decoded[i][1]).asm_code.instr.name).mode
                    = "label")
                => LET t == addr_to_offset_fn(LabelAddr(i)).offset
                   IN  /\ InRange(t)
                       /\ ~IsUsed(t)
                       /\ Stmt(stmts, t).label
                             = Some(Stmt(stmts, decoded[i][1]).asm_code.instr.label)

\* C27: a decode step that fails leaves the Store as it was before that step.
C27_FailedStepKeepsStore ==
    [][Len(failed') = Len(failed) + 1 => stmts' = stmts]_vars

\* the mapped offset of address a is an index of stmts (where the mapping itself does
\* not end the process)
MapsInside(a) == addr_to_offset_fn(a).panic \/ InRange(addr_to_offset_fn(a).offset)

\* C28: every Store access of the traversal is inside the cell array: the offset at
\* which an entry point, a call target or a branch target gets its label, the offset
\* whose opcode a path reads, and the offsets of the operand bytes it peeks or consumes
\* are below the number of cells.
C28_AccessesInside ==
    /\ \A i \in 1..3 :
          (pc = "call_" \o EntryNames[i] /\ status = "running") => MapsInside(vectors[i])
    /\ InLoop
          => /\ InRange(Top.offset)
             /\ StepKind(stmts, Top) \in {"jmp", "jsr"}
                   => /\ InRange(Top.offset + 1)
                      /\ get_u8(stmts, Top.offset + 1).ok => InRange(Top.offset + 2)
                      /\ (StepKind(stmts, Top) = "jsr"
                          /\ PeekTarget(stmts, Top.offset).k = "ok")
                            => MapsInside(PeekTarget(stmts, Top.offset).addr)
             /\ StepKind(stmts, Top) = "branch"
                   => /\ InRange(Top.offset + 1)
                      /\ get_i8(stmts, Top.offset + 1).ok
                            => MapsInside((Top.addr + 2 + get_i8(stmts, Top.offset + 1).v
                                           + U16) % U16)
             /\ StepKind(stmts, Top) = "plain"
                   => InRange(Top.offset + OpcodeArm(get_u8(stmts, Top.offset).v).args_len)

\* address a has an offset in the PRG-ROM bank behind the header, and the address of
\* that offset is a modulo the bank length
MapsConsistently(a) ==
    LET m == addr_to_offset_fn(a)
        back == offset_to_addr_fn(m.offset)
    IN  /\ ~m.panic
        /\ m.offset >= NES_HEADER_LENGTH
        /\ m.offset < NES_HEADER_LENGTH + NES_PRG_ROM_PAGE_LENGTH
        /\ ~back.panic
        /\ back.addr % NES_PRG_ROM_PAGE_LENGTH = a % NES_PRG_ROM_PAGE_LENGTH

\* C29: the NES mapping pair is consistent for every address the traversal maps: the
\* vector of an entry point about to be disassembled, the target of an absolute jump or
\* a subroutine call whose operands have been read, and the target of a conditional
\* branch.
C29_MappingPair ==
    /\ \A i \in 1..3 :
          (pc = "call_" \o EntryNames[i] /\ status = "running")
             => MapsConsistently(vectors[i])
    /\ (InLoop /\ InRange(Top.offset))
          => /\ (/\ StepKind(stmts, Top) \in {"jmp", "jsr"}
                 /\ PeekTarget(stmts, Top.offset).k = "ok")
                   => MapsConsistently(PeekTarget(stmts, Top.offset).addr)
             /\ (/\ StepKind(stmts, Top) = "branch"
                 /\ InRange(Top.offset + 1)
                 /\ get_i8(stmts, Top.offset + 1).ok
                 /\ Top.addr + get_i8(stmts, Top.offset + 1).v + 2 < U16)
                   => MapsConsistently(Top.addr + get_i8(stmts, Top.offset + 1).v + 2)

\* C30: the address arithmetic of the traversal stays in 16 bits: the address that is
\* mapped (a vector, the target of a jump, call or branch) is not below the ROM load
\* address that is subtracted from it, the address of a path plus the length of the
\* instruction it consumes does not pass $ffff, and neither does the `+ 2` of a branch
\* target.
C30_AddressArithmetic ==
    /\ \A i \in 1..3 :
          (pc = "call_" \o EntryNames[i] /\ status = "running")
             => vectors[i] >= NES_PRG_ROM_START_ADDRESS
    /\ (InLoop /\ InRange(Top.offset))
          => /\ (/\ StepKind(stmts, Top) \in {"jmp", "jsr"}
                 /\ PeekTarget(stmts, Top.offset).k = "ok")
                   => PeekTarget(stmts, Top.offset).addr >= NES_PRG_ROM_START_ADDRESS
             /\ (/\ StepKind(stmts, Top) = "branch"
                 /\ InRange(Top.offset + 1)
                 /\ get_i8(stmts, Top.offset + 1).ok)
                   => LET sum == (Top.addr + get_i8(stmts, Top.offset + 1).v + U16) % U16
                      IN  /\ sum + 2 < U16
                          /\ sum + 2 >= NES_PRG_ROM_START_ADDRESS
             /\ StepKind(stmts, Top) \in {"plain", "jsr", "branch"}
                   => Top.addr + 1 + OpcodeArm(get_u8(stmts, Top.offset).v).args_len < U16

====
